---- MODULE Spec2Model ----
(***************************************************************************)
(* A model of dev_rag (rmc8/moodeSky): the DevVectorizer run               *)
(* (clone -> collection setup -> extraction -> batched embedding/upload),  *)
(* the per-file extraction loop, the Markdown heading extractor, the       *)
(* chunk builders' truncation and the shared file filter.                  *)
(*                                                                         *)
(* Text is modelled by TLA+ strings; Len, \o and SubSeq on strings are the *)
(* Python len, + and slicing.                                              *)
(***************************************************************************)
EXTENDS Integers, Sequences, FiniteSets, TLC

VARIABLES
    \* ---- DevVectorizer run (run_full_process / run_flutter_process)
    mode,            \* "none" | "full" | "flutter": the entry point called
    pc,              \* position of the single flow of control
    run,             \* 1 for the first call, 2 for a second call on the same input
    config,          \* VectorizationConfig fields the run reads
    stats,           \* self.stats (ProcessingStats)
    collection_exists, \* the store: does config.collection_name exist
    collection_created,\* the store: number of create_collection calls served
    store,           \* the store: point id -> record of the collection
    chunks,          \* the list returned by _extract_chunks_with_progress
    batch_idx,       \* loop variable of the batch loop (an offset)
    total_uploaded,  \* local of _vectorize_and_upload_with_details
    points,          \* the points prepared for the current batch
    upsertLog,       \* outcome of each client.upsert attempt of the current batch
    memPause,        \* seconds slept before the current batch
    memory_percent,  \* the memory usage sampled before the current batch
    memChecks,       \* number of memory samples taken by the call
    batchResult,     \* per finished batch: "ok" | "embed_failed" | "build_failed" | "upload_failed"
    embedCalls,      \* batch numbers embedding_model.embed was invoked for
    upsertBatches,   \* batch numbers client.upsert was invoked for
    extractCalls,    \* number of calls of _extract_chunks_with_progress
    setupResult,     \* "none" | "ok" | "failed": what setup_collection returned
    firstRun,        \* after the first call: [store, clean, chunks] of that call
    \* ---- _should_process_file applied to one candidate file
    flPath,          \* str(file_path)
    flConfig,        \* include_tests, include_generated
    flResult,        \* the value returned
    flPc,            \* "off" | "call" | "done"
    \* ---- _extract_markdown_chunks applied to one file
    mdContent,       \* the text read from the file
    mdConfig,        \* max_doc_length
    mdChunks,        \* the list returned
    mdPc,            \* "off" | "call" | "done"
    \* ---- the chunk construction of the extractors, applied to one region
    trInput,         \* content, region [start, end), documentation found, name
    trConfig,        \* max_doc_length, max_code_length
    trChunk,         \* the chunk built: builder, documentation, code
    trPc,            \* "off" | "call" | "built"
    \* ---- _extract_chunks_with_progress over one repository
    exConfig,        \* include_tests, include_generated
    repo,            \* the files under repo_path: str(file_path) -> condition
    exQueue,         \* the files still to process, in processing order
    exChunks,        \* chunks (local list)
    processed,       \* processed (local counter)
    exWarnings,      \* self.stats.warnings
    exConsole,       \* files whose failure was only printed to the console
    extractorCalls,  \* the files passed to an extractor, in order
    exRepository,    \* self.stats.repository counters
    exPc,            \* "off" | "scan" | "loop" | "update" | "done"
    \* ---- one call of one extractor on one file
    fxKind,          \* the extractor, and for the brace dialects the pattern family
    fxPath,          \* str(file_path)
    fxContent,       \* the file's content (text, or the parsed document)
    fxStart,         \* match.start() of the pattern match being scanned
    fxMatchEnd,      \* match.end() of that match
    fxChunks,        \* chunks (the returned list)
    fxWarnings,      \* the entries the call appended to self.stats.warnings
    fxPc             \* "off" | "call" | "done"

runVars == <<mode, pc, run, config, stats, collection_exists, collection_created,
             store, chunks, batch_idx, total_uploaded, points, upsertLog, memPause, memory_percent, memChecks,
             batchResult, embedCalls, upsertBatches, extractCalls, setupResult,
             firstRun>>

flVars == <<flPath, flConfig, flResult, flPc>>

mdVars == <<mdContent, mdConfig, mdChunks, mdPc>>

trVars == <<trInput, trConfig, trChunk, trPc>>

exVars == <<exConfig, repo, exQueue, exChunks, processed, exWarnings, exConsole,
            extractorCalls, exRepository, exPc>>

fxVars == <<fxKind, fxPath, fxContent, fxStart, fxMatchEnd, fxChunks, fxWarnings, fxPc>>

vars == <<runVars, flVars, mdVars, trVars, exVars, fxVars>>

-----------------------------------------------------------------------------
(* Bounds of the model *)

MaxChunks == 3
MaxBatchSize == 2
MaxMdLines == 3
SmallDocLength == 4
SmallCodeLength == 2
MaxTextLen == 6
MaxFiles == 2
MaxScanLen == 4
MaxDefs == 2
MaxTextChunks == 1
MaxMarkupParts == 2
MaxPressureChunks == 3
MaxDocLines == 2
MaxItemParts == 2

-----------------------------------------------------------------------------
(* Program constants *)

RetryAttempts == 3
MemorySleep == 5
DefaultMaxMemoryPercent == 75
DefaultMaxDocLength == 1000
DefaultMaxCodeLength == 1500
PreviewLength == 500

-----------------------------------------------------------------------------
(* Helpers on Python strings and lists *)

Min(a, b) == IF a < b THEN a ELSE b

Max(a, b) == IF a > b THEN a ELSE b

Whitespace == {" ", "\t", "\n", "\r"}

CharAt(s, i) == SubSeq(s, i, i)

\* sub in s
Contains(sub, s) ==
    \E i \in 1..(Len(s) - Len(sub) + 1) : SubSeq(s, i, i + Len(sub) - 1) = sub

\* s.strip() == ""
IsBlank(s) == \A i \in 1..Len(s) : CharAt(s, i) \in Whitespace

\* list[a:b] with 0-based a, exclusive b, clipped like a Python slice
Slice(list, a, b) == SubSeq(list, a + 1, Min(b, Len(list)))

\* sep.join(parts)
RECURSIVE Join(_, _)
Join(sep, parts) ==
    IF Len(parts) = 0 THEN ""
    ELSE IF Len(parts) = 1 THEN parts[1]
    ELSE parts[1] \o sep \o Join(sep, Tail(parts))

\* (a + b - 1) // b
CeilDiv(a, b) == (a + b - 1) \div b

-----------------------------------------------------------------------------
(* DocumentChunk (models.py) *)

\* DocumentChunk.get_embedding_text
get_embedding_text_AlwaysDoc(chunk) ==
    LET p2 == <<chunk.signature, chunk.documentation>>
        p3 == IF chunk.name # "" /\ ~Contains(chunk.name, chunk.signature)
              THEN Append(p2, chunk.name) ELSE p2
    IN  Join(" ", p3)

get_embedding_text(chunk) ==
    LET p1 == <<chunk.signature>>
        p2 == IF ~IsBlank(chunk.documentation)
              THEN Append(p1, chunk.documentation) ELSE p1
        p3 == IF chunk.name # "" /\ ~Contains(chunk.name, chunk.signature)
              THEN Append(p2, chunk.name) ELSE p2
    IN  Join(" ", p3)

\* DocumentChunk.get_information_text
get_information_text(chunk) == chunk.signature \o ": " \o chunk.documentation

\* The chunks an extraction can return: two chunks of one Rust function found
\* by the 'pub fn' and the 'fn' pattern (same file_path, name and type), a
\* Markdown section, and a chunk whose documentation is blank.
ChunkPool ==
    { [type |-> "function", name |-> "f", file_path |-> "a.rs",
       documentation |-> "doc f", code |-> "pub fn f() { }", signature |-> "pub fn f() {"],
      [type |-> "function", name |-> "f", file_path |-> "a.rs",
       documentation |-> "doc f", code |-> "fn f() { }", signature |-> "fn f() {"],
      [type |-> "documentation", name |-> "Intro", file_path |-> "b.md",
       documentation |-> " ", code |-> "", signature |-> "Title"] }

ChunkLists == UNION { [1..n -> ChunkPool] : n \in 0..MaxChunks }

-----------------------------------------------------------------------------
(* The external collaborators: embedding model and vector store *)

\* hashlib.md5(...).hexdigest(): a digest, modelled as a collision-free tag of
\* the hashed string
Md5(s) == "md5(" \o s \o ")"

\* The outcomes of embedding_model.embed(texts): it raises, or it yields one
\* object per text, in order; an object is an ndarray (has tolist) or, at one
\* position, a scalar that is neither an ndarray nor iterable.
EmbedOutcomes(texts) ==
    { [raised |-> TRUE, vectors |-> <<>>] } \cup
    { [raised |-> FALSE,
       vectors |-> [i \in 1..Len(texts) |->
                      [kind |-> IF i = bad THEN "scalar" ELSE "ndarray",
                       of |-> texts[i]]]] : bad \in 0..Len(texts) }

\* an upsert that drops the records the call does not name
Upsert_Replace(st, pts) ==
    [id \in { pts[i].id : i \in 1..Len(pts) } |->
        LET k == CHOOSE i \in 1..Len(pts) : pts[i].id = id
        IN  [vector |-> pts[k].vector, payload |-> pts[k].payload]]

\* an upsert that keeps the record an id already has, and the first point of
\* an id that is new
Upsert_KeepExisting(st, pts) ==
    LET ids == { pts[i].id : i \in 1..Len(pts) }
        first(id) == CHOOSE i \in 1..Len(pts) :
                        /\ pts[i].id = id
                        /\ \A k \in 1..(i - 1) : pts[k].id # id
    IN  [id \in (DOMAIN st) \cup ids |->
            IF id \in DOMAIN st
            THEN st[id]
            ELSE [vector |-> pts[first(id)].vector, payload |-> pts[first(id)].payload]]

\* client.upsert(collection_name, points) when it succeeds: a point replaces
\* the record of the same id, the last point of an id wins
Upsert(st, pts) ==
    LET ids == { pts[i].id : i \in 1..Len(pts) }
        last(id) == CHOOSE i \in 1..Len(pts) :
                        /\ pts[i].id = id
                        /\ \A k \in (i + 1)..Len(pts) : pts[k].id # id
    IN  [id \in (DOMAIN st) \cup ids |->
            IF id \in ids
            THEN [vector |-> pts[last(id)].vector, payload |-> pts[last(id)].payload]
            ELSE st[id]]

EmptyStore == [id \in {} |-> {}]

-----------------------------------------------------------------------------
(* DevVectorizer._vectorize_and_upload_with_details: pure parts *)

\* point_id of a chunk
PointId_WithSignature(chunk) ==
    Md5(chunk.file_path \o ":" \o chunk.name \o ":" \o chunk.type \o ":"
        \o chunk.signature)

PointId(chunk) ==
    Md5(chunk.file_path \o ":" \o chunk.name \o ":" \o chunk.type)

\* payload of a chunk
Payload(chunk) ==
    [document |-> get_embedding_text(chunk),
     type |-> chunk.type,
     name |-> chunk.name,
     file_path |-> chunk.file_path,
     signature |-> chunk.signature,
     documentation |-> chunk.documentation,
     code |-> chunk.code,
     information |-> get_information_text(chunk)]

\* a slice that runs one chunk into the next batch
BatchAt_Inclusive(cs, idx, size) == Slice(cs, idx, idx + size + 1)

\* batch = chunks[batch_idx:batch_idx + batch_size]
BatchAt(cs, idx, size) == Slice(cs, idx, idx + size)

\* batch_num = batch_idx // batch_size + 1
BatchNum(idx, size) == (idx \div size) + 1

\* total_batches
TotalBatches(cs, size) == CeilDiv(Len(cs), size)

\* points that pair the chunks with the vectors in the opposite order
BuildPoints_Reversed(batch, embeddings) ==
    LET n == Min(Len(batch), Len(embeddings))
    IN  [ok |-> \A j \in 1..n : embeddings[j].kind \in {"ndarray", "iterable"},
         points |-> [j \in 1..n |->
                        [id |-> PointId(batch[j]),
                         vector |-> embeddings[n + 1 - j].of,
                         payload |-> Payload(batch[j])]]]

\* a loop that leaves out the chunk whose embedding cannot be converted and
\* keeps the points of the others
BuildPoints_SkipBad(batch, embeddings) ==
    LET n == Min(Len(batch), Len(embeddings))
        good == SelectSeq([j \in 1..n |-> j],
                          LAMBDA j : embeddings[j].kind \in {"ndarray", "iterable"})
    IN  [ok |-> TRUE,
         points |-> [k \in 1..Len(good) |->
                        [id |-> PointId(batch[good[k]]),
                         vector |-> embeddings[good[k]].of,
                         payload |-> Payload(batch[good[k]])]]]

\* The loop building the points of a batch from zip(batch, embeddings): the
\* first embedding that cannot be converted raises out of the loop.
BuildPoints(batch, embeddings) ==
    LET n == Min(Len(batch), Len(embeddings))
        convertible(e) == e.kind \in {"ndarray", "iterable"}
    IN  IF \E j \in 1..n : ~convertible(embeddings[j])
        THEN [ok |-> FALSE, points |-> <<>>]
        ELSE [ok |-> TRUE,
              points |-> [j \in 1..n |->
                            [id |-> PointId(batch[j]),
                             vector |-> embeddings[j].of,
                             payload |-> Payload(batch[j])]]]

-----------------------------------------------------------------------------
(* ProcessingStats *)

NewStats == [chunks_created |-> 0, chunks_uploaded |-> 0,
             errors |-> <<>>, warnings |-> <<>>]

Error(msg, batch_num) == [msg |-> msg, batch |-> batch_num]

SetupError == Error("Failed to setup Qdrant collection", 0)

PubspecError == Error("Not a valid Flutter project - pubspec.yaml not found", 0)

BatchError(batch_num) == Error("Failed to process batch", batch_num)

AddError(st, e) == [st EXCEPT !.errors = Append(@, e)]

-----------------------------------------------------------------------------
(* DevVectorizer.setup_collection: the result for a store in which the      *)
(* collection exists or not, and a store call that raises (fault)           *)

SetupFaults == {"none", "get_collections", "get_collection", "create_collection"}

\* a setup that creates the collection again when it is already there
setup_collection_Recreate(exists, fault) ==
    IF fault = "get_collections"
    THEN [ok |-> FALSE, exists |-> exists, created |-> 0]
    ELSE IF fault = "create_collection"
         THEN [ok |-> FALSE, exists |-> FALSE, created |-> 0]
         ELSE [ok |-> TRUE, exists |-> TRUE, created |-> 1]

setup_collection(exists, fault) ==
    IF fault = "get_collections"
    THEN [ok |-> FALSE, exists |-> exists, created |-> 0]
    ELSE IF exists
         THEN IF fault = "get_collection"
              THEN [ok |-> FALSE, exists |-> exists, created |-> 0]
              ELSE [ok |-> TRUE, exists |-> exists, created |-> 0]
         ELSE IF fault = "create_collection"
              THEN [ok |-> FALSE, exists |-> FALSE, created |-> 0]
              ELSE [ok |-> TRUE, exists |-> TRUE, created |-> 1]

-----------------------------------------------------------------------------
(* The run: run_full_process and run_flutter_process *)

MemorySamples == {DefaultMaxMemoryPercent, 90}

\* if memory_percent > self.config.max_memory_percent: await asyncio.sleep(5):
\* the seconds slept before the batch
MemoryPause_AtThreshold(percent, cfg) ==
    IF percent >= cfg.max_memory_percent THEN MemorySleep ELSE 0

MemoryPause(percent, cfg) ==
    IF percent > cfg.max_memory_percent THEN MemorySleep ELSE 0

RunInit ==
    /\ mode = "none"
    /\ pc = "idle"
    /\ run = 1
    /\ config \in [batch_size : 1..MaxBatchSize,
                   max_memory_percent : {DefaultMaxMemoryPercent}]
    /\ stats = NewStats
    /\ collection_exists \in BOOLEAN
    /\ collection_created = 0
    /\ store = EmptyStore
    /\ chunks = <<>>
    /\ batch_idx = 0
    /\ total_uploaded = 0
    /\ points = <<>>
    /\ upsertLog = <<>>
    /\ memPause = 0
    /\ memory_percent = 0
    /\ memChecks = 0
    /\ batchResult = <<>>
    /\ embedCalls = <<>>
    /\ upsertBatches = <<>>
    /\ extractCalls = 0
    /\ setupResult = "none"
    /\ firstRun = [store |-> EmptyStore, clean |-> FALSE, chunks |-> <<>>,
                   extracted |-> FALSE]

\* run_full_process is called: stats are created, the clone comes first
RunFullProcess ==
    /\ pc = "idle"
    /\ mode' = "full"
    /\ stats' = NewStats
    /\ pc' = "clone"
    /\ UNCHANGED <<run, config, collection_exists, collection_created, store, chunks,
                   batch_idx, total_uploaded, points, upsertLog, memPause, memory_percent, memChecks, batchResult,
                   embedCalls, upsertBatches, extractCalls, setupResult, firstRun>>

\* run_flutter_process is called: stats are created, the pubspec check comes first
RunFlutterProcess ==
    /\ pc = "idle"
    /\ mode' = "flutter"
    /\ stats' = NewStats
    /\ pc' = "verify"
    /\ UNCHANGED <<run, config, collection_exists, collection_created, store, chunks,
                   batch_idx, total_uploaded, points, upsertLog, memPause, memory_percent, memChecks, batchResult,
                   embedCalls, upsertBatches, extractCalls, setupResult, firstRun>>

\* repo = await self._clone_or_update_repo(...); repo.head.commit.hexsha: git
\* raises (clone or pull fails) and nothing in run_full_process catches it
CloneOrUpdateRepo ==
    /\ pc = "clone"
    /\ \E git_ok \in BOOLEAN :
          pc' = IF git_ok THEN "setup" ELSE "raised"
    /\ UNCHANGED <<mode, run, config, stats, collection_exists, collection_created,
                   store, chunks, batch_idx, total_uploaded, points, upsertLog,
                   memPause, memory_percent, memChecks, batchResult, embedCalls, upsertBatches, extractCalls,
                   setupResult, firstRun>>

\* pubspec.yaml missing: an error is recorded and the stats are returned
VerifyFlutterProject ==
    /\ pc = "verify"
    /\ \E pubspec_exists \in BOOLEAN :
          IF pubspec_exists
          THEN /\ pc' = "setup"
               /\ stats' = stats
          ELSE /\ pc' = "returned"
               /\ stats' = AddError(stats, PubspecError)
    /\ UNCHANGED <<mode, run, config, collection_exists, collection_created,
                   store, chunks, batch_idx, total_uploaded, points, upsertLog,
                   memPause, memory_percent, memChecks, batchResult, embedCalls, upsertBatches, extractCalls,
                   setupResult, firstRun>>

\* where the flow goes after setup_collection returned ok: on to the
\* extraction, or (after the error was recorded) return self.stats
AfterSetup_NoReturn(ok) == "extract"

AfterSetup(ok) == IF ok THEN "extract" ELSE "returned"

\* if not self.setup_collection(): errors.append(...); return self.stats
SetupCollectionStep ==
    /\ pc = "setup"
    /\ \E fault \in SetupFaults :
          LET r == setup_collection(collection_exists, fault)
          IN  /\ collection_exists' = r.exists
              /\ collection_created' = collection_created + r.created
              /\ pc' = AfterSetup(r.ok)
              /\ IF r.ok
                 THEN /\ setupResult' = "ok"
                      /\ stats' = stats
                 ELSE /\ setupResult' = "failed"
                      /\ stats' = AddError(stats, SetupError)
    /\ UNCHANGED <<mode, run, config, store, chunks, batch_idx, total_uploaded,
                   points, upsertLog, memPause, memory_percent, memChecks, batchResult, embedCalls,
                   upsertBatches, extractCalls, firstRun>>

\* chunks = await self._extract_chunks_with_progress(...): any list of chunks
\* (the files decide it; a second run over unchanged files yields the same
\* list); chunks_created is set; the upload is entered only "if chunks"
ExtractChunks ==
    /\ pc = "extract"
    /\ \E cs \in ChunkLists :
          /\ (run = 2 /\ firstRun.extracted) => cs = firstRun.chunks
          /\ chunks' = cs
          /\ stats' = [stats EXCEPT !.chunks_created = Len(cs)]
          /\ pc' = IF Len(cs) > 0 THEN "batch" ELSE "finish"
    /\ extractCalls' = extractCalls + 1
    /\ batch_idx' = 0
    /\ total_uploaded' = 0
    /\ UNCHANGED <<mode, run, config, collection_exists, collection_created, store,
                   points, upsertLog, memPause, memory_percent, memChecks, batchResult, embedCalls,
                   upsertBatches, setupResult, firstRun>>

-----------------------------------------------------------------------------
(* The run: _vectorize_and_upload_with_details and _upload_batch *)

\* for batch_idx in range(0, len(chunks), batch_size): the offset of the next
\* iteration, also after the except clause has recorded a failed batch
NextBatchIdx(cs, idx, size) == idx + size

\* the except clause of a batch neither breaks nor re-raises: the for loop
\* goes on with the next offset
AfterFailedBatch_Break(cs, idx, size) == Len(cs)

AfterFailedBatch_Again(cs, idx, size) == idx

AfterFailedBatch(cs, idx, size) == NextBatchIdx(cs, idx, size)

\* @retry(stop=stop_after_attempt(3)): after a failed attempt, is there another
ShouldRetry_OneMore(attempts) == attempts < RetryAttempts + 1

ShouldRetry(attempts) == attempts < RetryAttempts

\* an except clause that records no error
FailBatch_NoError(kind) ==
    /\ stats' = stats
    /\ batchResult' = Append(batchResult, kind)
    /\ batch_idx' = AfterFailedBatch(chunks, batch_idx, config.batch_size)
    /\ pc' = "batch"

\* except Exception as e: self.stats.errors.append(f"Failed to process batch ...")
FailBatch(kind) ==
    LET batch_num == BatchNum(batch_idx, config.batch_size)
    IN  /\ stats' = AddError(stats, BatchError(batch_num))
        /\ batchResult' = Append(batchResult, kind)
        /\ batch_idx' = AfterFailedBatch(chunks, batch_idx, config.batch_size)
        /\ pc' = "batch"

\* top of an iteration: the memory is sampled once; above the threshold the
\* flow sleeps 5 seconds and goes on
BatchBegin ==
    /\ pc = "batch"
    /\ batch_idx < Len(chunks)
    /\ \E sample \in MemorySamples :
          /\ memory_percent' = sample
          /\ memPause' = MemoryPause(sample, config)
    /\ memChecks' = memChecks + 1
    /\ points' = <<>>
    /\ upsertLog' = <<>>
    /\ pc' = "embed"
    /\ UNCHANGED <<mode, run, config, stats, collection_exists, collection_created,
                   store, chunks, batch_idx, total_uploaded, batchResult, embedCalls,
                   upsertBatches, extractCalls, setupResult, firstRun>>

\* texts, embeddings = list(self.embedding_model.embed(texts)) and the loop that
\* prepares the points; an exception of either goes to the except clause
EmbedBatch ==
    /\ pc = "embed"
    /\ LET batch == BatchAt(chunks, batch_idx, config.batch_size)
           batch_num == BatchNum(batch_idx, config.batch_size)
           texts == [i \in 1..Len(batch) |-> get_embedding_text(batch[i])]
       IN  /\ embedCalls' = Append(embedCalls, batch_num)
           /\ \E out \in EmbedOutcomes(texts) :
                 IF out.raised
                 THEN /\ FailBatch("embed_failed")
                      /\ points' = points
                 ELSE LET built == BuildPoints(batch, out.vectors)
                      IN  IF built.ok
                          THEN /\ points' = built.points
                               /\ pc' = "upsert"
                               /\ UNCHANGED <<stats, batchResult, batch_idx>>
                          ELSE /\ FailBatch("build_failed")
                               /\ points' = points
    /\ UNCHANGED <<mode, run, config, collection_exists, collection_created, store,
                   chunks, total_uploaded, upsertLog, memPause, memory_percent, memChecks, upsertBatches,
                   extractCalls, setupResult, firstRun>>

\* one attempt of await self._upload_batch(points): client.upsert succeeds, or
\* fails and tenacity tries again, or fails for the last time (RetryError,
\* caught by the except clause of the batch)
UpsertAttempt ==
    /\ pc = "upsert"
    /\ LET batch_num == BatchNum(batch_idx, config.batch_size)
       IN  upsertBatches' = IF upsertLog = <<>>
                            THEN Append(upsertBatches, batch_num)
                            ELSE upsertBatches
    /\ \E upsert_ok \in BOOLEAN :
          /\ upsertLog' = Append(upsertLog, upsert_ok)
          /\ IF upsert_ok
             THEN /\ store' = Upsert(store, points)
                  /\ total_uploaded' = total_uploaded + Len(points)
                  /\ batchResult' = Append(batchResult, "ok")
                  /\ batch_idx' = NextBatchIdx(chunks, batch_idx, config.batch_size)
                  /\ pc' = "batch"
                  /\ stats' = stats
             ELSE IF ShouldRetry(Len(upsertLog) + 1)
                  THEN /\ pc' = "upsert"
                       /\ UNCHANGED <<store, total_uploaded, batchResult, batch_idx,
                                      stats>>
                  ELSE /\ FailBatch("upload_failed")
                       /\ UNCHANGED <<store, total_uploaded>>
    /\ UNCHANGED <<mode, run, config, collection_exists, collection_created, chunks,
                   points, memPause, memory_percent, memChecks, embedCalls, extractCalls, setupResult, firstRun>>

\* the loop is over: self.stats.chunks_uploaded = total_uploaded
UploadDone ==
    /\ pc = "batch"
    /\ batch_idx >= Len(chunks)
    /\ stats' = [stats EXCEPT !.chunks_uploaded = total_uploaded]
    /\ pc' = "finish"
    /\ UNCHANGED <<mode, run, config, collection_exists, collection_created, store,
                   chunks, batch_idx, total_uploaded, points, upsertLog, memPause, memory_percent, memChecks,
                   batchResult, embedCalls, upsertBatches, extractCalls, setupResult,
                   firstRun>>

\* processing_time, the final summary, return self.stats
ReturnStats ==
    /\ pc = "finish"
    /\ pc' = "returned"
    /\ UNCHANGED <<mode, run, config, stats, collection_exists, collection_created,
                   store, chunks, batch_idx, total_uploaded, points, upsertLog,
                   memPause, memory_percent, memChecks, batchResult, embedCalls, upsertBatches, extractCalls,
                   setupResult, firstRun>>

\* Every batch of the call was embedded, built and upserted
RunClean ==
    /\ pc = "returned"
    /\ setupResult = "ok"
    /\ extractCalls = 1
    /\ Len(batchResult) = TotalBatches(chunks, config.batch_size)
    /\ \A b \in 1..Len(batchResult) : batchResult[b] = "ok"

\* The caller runs the process a second time with the same vectorizer
\* configuration against the same store and unchanged files (main.py calls the
\* entry points once per invocation; the store outlives the process).
Rerun ==
    /\ pc \in {"returned", "raised"}
    /\ run = 1
    /\ run' = 2
    /\ firstRun' = [store |-> store, clean |-> RunClean, chunks |-> chunks,
                    extracted |-> extractCalls > 0]
    /\ mode' = "none"
    /\ pc' = "idle"
    /\ stats' = NewStats
    /\ chunks' = <<>>
    /\ batch_idx' = 0
    /\ total_uploaded' = 0
    /\ points' = <<>>
    /\ upsertLog' = <<>>
    /\ memPause' = 0
    /\ memory_percent' = 0
    /\ memChecks' = 0
    /\ batchResult' = <<>>
    /\ embedCalls' = <<>>
    /\ upsertBatches' = <<>>
    /\ extractCalls' = 0
    /\ setupResult' = "none"
    /\ UNCHANGED <<config, collection_exists, collection_created, store>>

RunNext ==
    \/ RunFullProcess
    \/ RunFlutterProcess
    \/ CloneOrUpdateRepo
    \/ VerifyFlutterProject
    \/ SetupCollectionStep
    \/ ExtractChunks
    \/ BatchBegin
    \/ EmbedBatch
    \/ UpsertAttempt
    \/ UploadDone
    \/ ReturnStats

\* The other operations are not running
FilterOff ==
    /\ flPath = ""
    /\ flConfig = [include_tests |-> FALSE, include_generated |-> FALSE]
    /\ flResult = FALSE
    /\ flPc = "off"

MarkdownOff ==
    /\ mdContent = ""
    /\ mdConfig = [max_doc_length |-> DefaultMaxDocLength]
    /\ mdChunks = <<>>
    /\ mdPc = "off"

RunOff ==
    /\ RunInit
    /\ config.batch_size = 1
    /\ collection_exists = FALSE

NoChunk == [builder |-> "", documentation |-> "", code |-> ""]

BuilderOff ==
    /\ trInput = [content |-> "", start |-> 0, end |-> 0, doc |-> "", name |-> ""]
    /\ trConfig = [max_doc_length |-> DefaultMaxDocLength,
                   max_code_length |-> DefaultMaxCodeLength]
    /\ trChunk = NoChunk
    /\ trPc = "off"

NoCounts == [dart_files |-> 0, md_files |-> 0, json_files |-> 0, total_files |-> 0]

ExtractionOff ==
    /\ exConfig = [include_tests |-> FALSE, include_generated |-> FALSE]
    /\ repo = <<>>
    /\ exQueue = <<>>
    /\ exChunks = <<>>
    /\ processed = 0
    /\ exWarnings = <<>>
    /\ exConsole = <<>>
    /\ extractorCalls = <<>>
    /\ exRepository = NoCounts
    /\ exPc = "off"

ExtractorOff ==
    /\ fxKind = "none"
    /\ fxPath = ""
    /\ fxContent = ""
    /\ fxStart = 0
    /\ fxMatchEnd = 0
    /\ fxChunks = <<>>
    /\ fxWarnings = <<>>
    /\ fxPc = "off"

Init ==
    RunInit /\ FilterOff /\ MarkdownOff /\ BuilderOff /\ ExtractionOff /\ ExtractorOff

Next == RunNext /\ UNCHANGED <<flVars, mdVars, trVars, exVars, fxVars>>

Spec == Init /\ [][Next]_vars

RerunNext == (RunNext \/ Rerun) /\ UNCHANGED <<flVars, mdVars, trVars, exVars, fxVars>>

SpecRerun == Init /\ [][RerunNext]_vars

-----------------------------------------------------------------------------
(* Claims about the run *)

Range(f) == { f[i] : i \in DOMAIN f }

Count(f, x) == Cardinality({ i \in DOMAIN f : f[i] = x })

\* number of chunks of batch b (1-based)
BatchSize(b) ==
    Len(BatchAt(chunks, (b - 1) * config.batch_size, config.batch_size))

RECURSIVE SumOkBatches(_)
SumOkBatches(b) ==
    IF b = 0 THEN 0
    ELSE SumOkBatches(b - 1) + (IF batchResult[b] = "ok" THEN BatchSize(b) ELSE 0)

UploadOver == pc \in {"finish", "returned"} /\ extractCalls > 0

\* the loop is about to process batch b
LoopAtBatch(b) ==
    /\ pc \in {"batch", "embed"}
    /\ batch_idx < Len(chunks)
    /\ BatchNum(batch_idx, config.batch_size) = b

Triple(payload) == <<payload.file_path, payload.name, payload.type>>

\* C1: batch failure isolation. The batches are taken in order, one embedding
\* call each, whatever the earlier batches did; when the upload is over every
\* batch 1..N has been attempted (embedding invoked, and the upsert invoked
\* for exactly the batches whose points could be prepared), so a failed batch
\* never ends the loop before the last batch.
C1_BatchFailureIsolation ==
    LET n == TotalBatches(chunks, config.batch_size)
    IN  /\ embedCalls = [i \in 1..Len(embedCalls) |-> i]
        /\ Len(embedCalls) <= n
        /\ Len(batchResult) \in {Len(embedCalls), Len(embedCalls) - 1}
        /\ \A b \in 1..Len(batchResult) :
              (batchResult[b] \in {"ok", "upload_failed"}) <=> (b \in Range(upsertBatches))
        /\ \A b \in 1..Len(batchResult) :
              (batchResult[b] # "ok" /\ b < n) =>
                  (b + 1 \in Range(embedCalls) \/ LoopAtBatch(b + 1))
        /\ UploadOver => (Len(embedCalls) = n /\ Len(batchResult) = n)

\* C1 witness: batch 2 of 3 failed all its retries, batches 1 and 3 were uploaded
C1_Witness ==
    /\ pc = "returned"
    /\ batchResult = <<"ok", "upload_failed", "ok">>
    /\ upsertBatches = <<1, 2, 3>>

\* C2: the upsert of a batch is attempted at most 3 times and no attempt
\* follows a success; a batch whose 3 attempts failed has exactly one error
\* naming its number, adds nothing to the uploaded count, and the loop goes on.
C2_UpsertRetry ==
    LET n == TotalBatches(chunks, config.batch_size)
        done == Len(batchResult)
    IN  /\ Len(upsertLog) <= 3
        /\ \A i \in 1..(Len(upsertLog) - 1) : upsertLog[i] = FALSE
        /\ (pc = "batch" /\ done > 0 /\ batchResult[done] = "upload_failed")
              => upsertLog = <<FALSE, FALSE, FALSE>>
        /\ (pc = "batch" /\ done > 0 /\ batchResult[done] = "ok")
              => (upsertLog # <<>> /\ upsertLog[Len(upsertLog)] = TRUE)
        /\ \A b \in 1..done :
              batchResult[b] = "upload_failed" => Count(stats.errors, BatchError(b)) = 1
        /\ total_uploaded = SumOkBatches(done)
        /\ UploadOver => (done = n /\ stats.chunks_uploaded = SumOkBatches(n))

\* C2 witness: batch 1 failed its three attempts, batch 2 went through at its
\* second attempt
C2_Witness ==
    /\ pc = "batch"
    /\ batchResult = <<"upload_failed", "ok">>
    /\ upsertLog = <<FALSE, TRUE>>
    /\ total_uploaded = BatchSize(2)
    /\ Len(stats.errors) = 1

\* C3 as claimed: a batch whose embedding call failed had its embedding call
\* made 3 times before the error was recorded
C3_EmbedRetried ==
    \A b \in 1..Len(batchResult) :
        batchResult[b] = "embed_failed" => Count(embedCalls, b) = 3

\* C3 amended: a failing embedding call is not retried. The embedding of the
\* batch was invoked once, no upsert was invoked for it, exactly one error
\* names the batch, and the loop goes on with the next batch.
C3_EmbedNotRetried ==
    LET n == TotalBatches(chunks, config.batch_size)
    IN  \A b \in 1..Len(batchResult) :
           batchResult[b] = "embed_failed" =>
              /\ Count(embedCalls, b) = 1
              /\ b \notin Range(upsertBatches)
              /\ Count(stats.errors, BatchError(b)) = 1
              /\ b < n => (b + 1 \in Range(embedCalls) \/ LoopAtBatch(b + 1))

\* C3 witness: the embedding of batch 1 failed, batch 2 was uploaded
C3_Witness ==
    /\ pc = "returned"
    /\ batchResult = <<"embed_failed", "ok">>
    /\ embedCalls = <<1, 2>>

\* C4: the record id depends on (file_path, name, type) only, so records of
\* one triple share one id (no duplicate records); after a first run that
\* uploaded every batch, a second run over the same chunk list adds no id, and
\* when it uploads every batch too the store is the store the first run left.
C4_IdempotentIds ==
    /\ \A i, j \in 1..Len(points) :
          Triple(points[i].payload) = Triple(points[j].payload)
              => points[i].id = points[j].id
    /\ \A id1, id2 \in DOMAIN store :
          Triple(store[id1].payload) = Triple(store[id2].payload) => id1 = id2
    /\ (run = 2 /\ firstRun.clean) => DOMAIN store = DOMAIN firstRun.store
    /\ (run = 2 /\ firstRun.clean /\ RunClean) => store = firstRun.store

\* C4 witness: both runs uploaded every batch of a list in which two chunks
\* share (file_path, name, type) and differ in their signature
C4_Witness ==
    /\ run = 2
    /\ firstRun.clean
    /\ RunClean
    /\ firstRun.chunks = chunks
    /\ \E i, j \in 1..Len(chunks) :
          /\ i < j
          /\ PointId(chunks[i]) = PointId(chunks[j])
          /\ chunks[i].signature # chunks[j].signature
    /\ Cardinality(DOMAIN store) < Len(chunks)
    /\ store # EmptyStore

\* C5 as claimed: no exception escapes run_full_process or run_flutter_process
C5_NoExceptionEscapes == pc # "raised"

\* C6: when setup_collection failed the run has returned with the setup error
\* recorded, nothing was extracted, no embedding and no upsert was invoked, and
\* the stats show no chunk created or uploaded.
C6_SetupFailureAborts ==
    setupResult = "failed" =>
        /\ pc = "returned"
        /\ Count(stats.errors, SetupError) = 1
        /\ extractCalls = 0
        /\ embedCalls = <<>>
        /\ upsertBatches = <<>>
        /\ chunks = <<>>
        /\ stats.chunks_created = 0
        /\ stats.chunks_uploaded = 0

\* C6 witness: run_flutter_process returned after a failed setup
C6_Witness ==
    /\ setupResult = "failed"
    /\ pc = "returned"
    /\ mode = "flutter"
    /\ collection_exists = FALSE

-----------------------------------------------------------------------------
(* DevVectorizer._should_process_file *)

StartsWith(s, prefix) == Len(prefix) <= Len(s) /\ SubSeq(s, 1, Len(prefix)) = prefix

EndsWith(s, suffix) ==
    Len(suffix) <= Len(s) /\ SubSeq(s, Len(s) - Len(suffix) + 1, Len(s)) = suffix

\* s.rfind(c) as a 1-based position, 0 when c is not in s
RFind(s, c) ==
    LET at == { i \in 1..Len(s) : CharAt(s, i) = c }
    IN  IF at = {} THEN 0 ELSE CHOOSE i \in at : \A k \in at : k <= i

\* pathlib: PurePath.name, the last component of the path
PathName(path) == SubSeq(path, RFind(path, "/") + 1, Len(path))

\* pathlib: PurePath.suffix, the last dot of the name and what follows it,
\* empty when the name has no dot, starts with its only dot or ends with it
PathSuffix(path) ==
    LET name == PathName(path)
        i == RFind(name, ".")
    IN  IF 1 < i /\ i < Len(name) THEN SubSeq(name, i, Len(name)) ELSE ""

\* pathlib: PurePath.stem
PathStem(path) ==
    LET name == PathName(path)
        i == RFind(name, ".")
    IN  IF 1 < i /\ i < Len(name) THEN SubSeq(name, 1, i - 1) ELSE name

_should_process_file(file_path, cfg) ==
    IF ~cfg.include_tests /\ Contains("test", file_path) THEN FALSE
    ELSE IF ~cfg.include_generated /\ PathSuffix(file_path) = ".g.dart" THEN FALSE
    ELSE IF Contains("example", file_path) /\ ~cfg.include_tests THEN FALSE
    ELSE TRUE

\* Candidate files: directory, stem and extension
FilterDirs == {"", "lib/", "test/", "example/", "lib/src/"}

FilterStems == {"m", "latest", "x.y"}

FilterExts == {".dart", ".g.dart", ".rs", ""}

FilterPaths == { d \o n \o x : d \in FilterDirs, n \in FilterStems, x \in FilterExts }

FilterInit ==
    /\ flPath \in FilterPaths
    /\ flConfig \in [include_tests : BOOLEAN, include_generated : BOOLEAN]
    /\ flResult = FALSE
    /\ flPc = "call"

ShouldProcessFile ==
    /\ flPc = "call"
    /\ flResult' = _should_process_file(flPath, flConfig)
    /\ flPc' = "done"
    /\ UNCHANGED <<flPath, flConfig>>

FilterNext == ShouldProcessFile /\ UNCHANGED <<runVars, mdVars, trVars, exVars, fxVars>>

InitFilter ==
    RunOff /\ FilterInit /\ MarkdownOff /\ BuilderOff /\ ExtractionOff /\ ExtractorOff

SpecFilter == InitFilter /\ [][FilterNext]_vars

\* C10 as claimed: a Dart file named *.g.dart is rejected by the filter
\* whenever include_generated is false
C10_GeneratedExcluded ==
    (flPc = "done" /\ EndsWith(flPath, ".g.dart") /\ ~flConfig.include_generated)
        => flResult = FALSE

-----------------------------------------------------------------------------
(* DevVectorizer._extract_markdown_chunks *)

\* content.split('\n')
RECURSIVE SplitLines(_)
SplitLines(content) ==
    LET at == { i \in 1..Len(content) : CharAt(content, i) = "\n" }
    IN  IF at = {} THEN <<content>>
        ELSE LET i == CHOOSE k \in at : \A m \in at : k <= m
             IN  <<SubSeq(content, 1, i - 1)>>
                     \o SplitLines(SubSeq(content, i + 1, Len(content)))

\* number of characters of cs at the start of s
LeadingRun(s, cs) ==
    LET stops == { i \in 1..Len(s) : CharAt(s, i) \notin cs }
    IN  IF stops = {} THEN Len(s) ELSE (CHOOSE i \in stops : \A k \in stops : i <= k) - 1

\* number of characters of cs at the end of s
TrailingRun(s, cs) ==
    LET stops == { i \in 1..Len(s) : CharAt(s, i) \notin cs }
    IN  IF stops = {} THEN Len(s)
        ELSE Len(s) - (CHOOSE i \in stops : \A k \in stops : k <= i)

\* s.strip()
Strip(s) ==
    IF LeadingRun(s, Whitespace) = Len(s) THEN ""
    ELSE SubSeq(s, LeadingRun(s, Whitespace) + 1, Len(s) - TrailingRun(s, Whitespace))

\* re.match(r'^(#{1,3})\s+(.+)$', line): one to three '#', then whitespace,
\* then at least one more character (the last whitespace character when
\* nothing else follows). level is len(group(1)), 0 when there is no match;
\* title is group(2).strip().
SectionMatch(line) ==
    LET h == LeadingRun(line, {"#"})
        rest == SubSeq(line, h + 1, Len(line))
        w == LeadingRun(rest, Whitespace)
        text == SubSeq(rest, w + 1, Len(rest))
    IN  IF h \in 1..3 /\ w >= 1 /\ (text # "" \/ w >= 2)
        THEN [level |-> h, title |-> Strip(text)]
        ELSE [level |-> 0, title |-> ""]

\* if next_match and len(next_match.group(1)) <= level: break
SectionEnds_Strict(next_level, level) == next_level > 0 /\ next_level < level

SectionEnds(next_level, level) == next_level > 0 /\ next_level <= level

\* the while loop: the index (1-based) of the line that ends the section that
\* starts after line i, Len(lines) + 1 when no line does
SectionStop_NextHeading(lines, i, level) ==
    LET stops == { k \in (i + 1)..Len(lines) : SectionMatch(lines[k]).level > 0 }
    IN  IF stops = {} THEN Len(lines) + 1
        ELSE CHOOSE k \in stops : \A m \in stops : k <= m

SectionStop(lines, i, level) ==
    LET stops == { k \in (i + 1)..Len(lines) :
                      SectionEnds(SectionMatch(lines[k]).level, level) }
    IN  IF stops = {} THEN Len(lines) + 1
        ELSE CHOOSE k \in stops : \A m \in stops : k <= m

\* the chunk of the heading at line i (1-based), for a non-empty section
MarkdownChunk(lines, i, cfg) ==
    LET m == SectionMatch(lines[i])
        j == SectionStop(lines, i, m.level)
        body == Strip(Join("\n", SubSeq(lines, i + 1, j - 1)))
    IN  [type |-> "documentation",
         name |-> m.title,
         documentation |-> SubSeq(body, 1, Min(Len(body), cfg.max_doc_length)),
         code |-> "",
         signature |-> m.title,
         level |-> m.level,
         body |-> body,
         line_start |-> i,
         line_end |-> j - 1]

\* for i, line in enumerate(lines): the chunks of the headings from line i on
RECURSIVE MarkdownChunksFrom(_, _, _)
MarkdownChunksFrom(lines, i, cfg) ==
    IF i > Len(lines) THEN <<>>
    ELSE LET rest == MarkdownChunksFrom(lines, i + 1, cfg)
         IN  IF SectionMatch(lines[i]).level = 0 THEN rest
             ELSE IF MarkdownChunk(lines, i, cfg).body = "" THEN rest
             ELSE <<MarkdownChunk(lines, i, cfg)>> \o rest

_extract_markdown_chunks(content, cfg) ==
    MarkdownChunksFrom(SplitLines(content), 1, cfg)

\* Lines of the files tried
MdLinePool == {"# A", "## B", "### C", "#### D", "foo", "", "#  ", "#x"}

\* The six lines of the heading example
HeadingExample == "# A\nfoo\n## B\nbar\n# C\nbaz"

MdFiles ==
    { Join("\n", ls) : ls \in UNION { [1..n -> MdLinePool] : n \in 1..MaxMdLines } }
        \cup {HeadingExample}

MarkdownInit ==
    /\ mdContent \in MdFiles
    /\ mdConfig \in [max_doc_length : {SmallDocLength, DefaultMaxDocLength}]
    /\ mdChunks = <<>>
    /\ mdPc = "call"

ExtractMarkdownChunks ==
    /\ mdPc = "call"
    /\ mdChunks' = _extract_markdown_chunks(mdContent, mdConfig)
    /\ mdPc' = "done"
    /\ UNCHANGED <<mdContent, mdConfig>>

MarkdownNext ==
    ExtractMarkdownChunks /\ UNCHANGED <<runVars, flVars, trVars, exVars, fxVars>>

InitMarkdown ==
    RunOff /\ FilterOff /\ MarkdownInit /\ BuilderOff /\ ExtractionOff /\ ExtractorOff

SpecMarkdown == InitMarkdown /\ [][MarkdownNext]_vars

NamesAndBodies(cs) == [i \in 1..Len(cs) |-> <<cs[i].name, cs[i].documentation>>]

\* C8 as claimed: on the six example lines the extractor yields A, B, C with
\* the bodies 'foo', 'bar', 'baz'
C8_NoLeakIntoParent ==
    (mdPc = "done" /\ mdContent = HeadingExample
        /\ mdConfig.max_doc_length = DefaultMaxDocLength)
        => NamesAndBodies(mdChunks) = << <<"A", "foo">>, <<"B", "bar">>, <<"C", "baz">> >>

\* C8 amended: the body of a section holds every line up to the next heading
\* of the same or a shallower level, nested sections included: no line of the
\* body is a heading of the section's level or above, and the body ends at
\* such a heading or at the end of the file. On the example the chunks are
\* A, B, C with the bodies 'foo\n## B\nbar', 'bar', 'baz'.
C8_BodyUpToSameOrShallowerHeading ==
    mdPc = "done" =>
        LET lines == SplitLines(mdContent)
        IN  /\ \A c \in Range(mdChunks) :
                  /\ SectionMatch(lines[c.line_start]).level = c.level
                  /\ c.level \in 1..3
                  /\ c.line_end >= c.line_start
                  /\ \A k \in (c.line_start + 1)..c.line_end :
                        LET lv == SectionMatch(lines[k]).level
                        IN  lv = 0 \/ lv > c.level
                  /\ c.line_end < Len(lines) =>
                        SectionMatch(lines[c.line_end + 1]).level \in 1..c.level
                  /\ c.body = Strip(Join("\n", SubSeq(lines, c.line_start + 1, c.line_end)))
            /\ (mdContent = HeadingExample
                  /\ mdConfig.max_doc_length = DefaultMaxDocLength)
                  => NamesAndBodies(mdChunks) =
                        << <<"A", "foo\n## B\nbar">>, <<"B", "bar">>, <<"C", "baz">> >>

\* C8 witness: the example was extracted and section A holds the lines of B
C8_Witness ==
    /\ mdPc = "done"
    /\ mdContent = HeadingExample
    /\ mdConfig.max_doc_length = DefaultMaxDocLength
    /\ Len(mdChunks) = 3
    /\ mdChunks[1].name = "A"
    /\ Contains("## B\nbar", mdChunks[1].documentation)

\* the last line (1-based) of the section of the heading at line i: no line
\* after i up to it is a heading of level 1..3 at the heading's level or above,
\* and the line after it, if any, is one
LastSectionLine(lines, i) ==
    LET level(k) == SectionMatch(lines[k]).level
        open(j) == \A k \in (i + 1)..j : ~(level(k) \in 1..level(i))
    IN  CHOOSE j \in i..Len(lines) :
            open(j) /\ (j < Len(lines) => ~open(j + 1))

\* C21: heading section boundary. The body of a heading of level L in 1..3 at
\* line i is exactly the lines after i up to, not including, the first later
\* heading of a level in 1..L, or up to the end of the file ('####' lines are
\* body text); the chunks are, in file order, one per heading whose trimmed
\* body is not empty, and a heading with an empty body yields none.
C21_SectionBoundary ==
    mdPc = "done" =>
        LET lines == SplitLines(mdContent)
            body(i) == Strip(Join("\n", SubSeq(lines, i + 1, LastSectionLine(lines, i))))
            heads == { i \in 1..Len(lines) :
                          SectionMatch(lines[i]).level \in 1..3 /\ body(i) # "" }
        IN  /\ Len(mdChunks) = Cardinality(heads)
            /\ \A n \in 1..Len(mdChunks) :
                  LET c == mdChunks[n]
                  IN  /\ c.line_start \in heads
                      /\ c.name = SectionMatch(lines[c.line_start]).title
                      /\ c.line_end = LastSectionLine(lines, c.line_start)
                      /\ c.documentation =
                            SubSeq(body(c.line_start), 1,
                                   Min(Len(body(c.line_start)), mdConfig.max_doc_length))
                      /\ n > 1 => mdChunks[n - 1].line_start < c.line_start

\* C21 witness: section B holds a '####' line and ends at the shallower
\* heading A, whose own body is empty, so B is the only chunk
C21_Witness ==
    /\ mdPc = "done"
    /\ mdContent = "## B\n#### D\n# A"
    /\ mdConfig.max_doc_length = DefaultMaxDocLength
    /\ NamesAndBodies(mdChunks) = << <<"B", "#### D">> >>

-----------------------------------------------------------------------------
(* The chunk construction of each extractor: documentation and code of the  *)
(* DocumentChunk built for a region content[start:end] with the             *)
(* documentation text doc found for it                                      *)

\* s[:n]
Prefix(s, n) == SubSeq(s, 1, Min(Len(s), n))

\* the marker the Dart class extractor appends to a cut class body
TruncationMarker == "\n// ... (truncated)"

\* _extract_dart_chunks, classes: end is class_end
DartClassChunk(inp, cfg) ==
    LET cut == Min(inp.end, inp.start + cfg.max_code_length)
        code == SubSeq(inp.content, inp.start + 1, Min(cut, Len(inp.content)))
    IN  [documentation |-> Prefix(inp.doc, cfg.max_doc_length),
         code |-> IF inp.end > inp.start + cfg.max_code_length
                  THEN code \o TruncationMarker ELSE code]

\* _extract_dart_chunks, functions
DartFunctionChunk(inp, cfg) ==
    [documentation |-> Prefix(inp.doc, cfg.max_doc_length), code |-> ""]

\* _extract_markdown_chunks: doc is the section body
MarkdownSectionChunk(inp, cfg) ==
    [documentation |-> Prefix(inp.doc, cfg.max_doc_length), code |-> ""]

\* _extract_json_chunks, the lexicon and each def: doc is the 'description'
\* field, content is json.dumps(..., indent=2)
JsonChunk(inp, cfg) ==
    [documentation |-> inp.doc, code |-> Prefix(inp.content, cfg.max_code_length)]

\* _extract_yaml_chunks, the file: content is content_str
YamlFileChunk(inp, cfg) ==
    [documentation |-> "YAML configuration file: " \o inp.name,
     code |-> Prefix(inp.content, cfg.max_code_length)]

\* _extract_yaml_chunks, a section: content is yaml.dump({name: value})
YamlSectionChunk(inp, cfg) ==
    [documentation |-> "Configuration section: " \o inp.name,
     code |-> Prefix(inp.content, cfg.max_code_length)]

\* _extract_rust_chunks, _extract_js_chunks, _extract_ts_chunks:
\* code_block = content[start_pos:end_pos], documentation = '\n'.join(doc_lines)
BraceChunk(inp, cfg) ==
    [documentation |-> inp.doc,
     code |-> SubSeq(inp.content, inp.start + 1, Min(inp.end, Len(inp.content)))]

\* _extract_svelte_chunks, a function of the script: the code is match.group(0)
SvelteFunctionChunk(inp, cfg) ==
    [documentation |-> "Svelte component function: " \o inp.name,
     code |-> SubSeq(inp.content, inp.start + 1, Min(inp.end, Len(inp.content)))]

\* a preview cut without the ellipsis
Preview_NoEllipsis(content) == Prefix(content, PreviewLength)

\* content[:500] + "..." if len(content) > 500 else content
Preview(content) ==
    IF Len(content) > PreviewLength
    THEN Prefix(content, PreviewLength) \o "..." ELSE content

\* _extract_svelte_chunks, the component
SvelteComponentChunk(inp, cfg) ==
    [documentation |-> "Svelte component: " \o inp.name, code |-> Preview(inp.content)]

\* _extract_html_chunks, a script block: content[start:end] is the stripped
\* inner text of the block
HtmlScriptChunk(inp, cfg) ==
    [documentation |-> "JavaScript code from HTML file",
     code |-> SubSeq(inp.content, inp.start + 1, Min(inp.end, Len(inp.content)))]

\* _extract_html_chunks, the file
HtmlFileChunk(inp, cfg) ==
    [documentation |-> "HTML file: " \o inp.name, code |-> Preview(inp.content)]

\* a text of n characters
RECURSIVE Text(_)
Text(n) ==
    IF n = 0 THEN "" ELSE IF n = 1 THEN "x"
    ELSE Text(n \div 2) \o Text(n - (n \div 2))

\* short texts, texts around the preview length, and a text longer than the
\* default max_code_length plus the marker
TextLengths ==
    (0..MaxTextLen) \cup {PreviewLength, PreviewLength + 1,
                          DefaultMaxCodeLength + Len(TruncationMarker) + 1}

BuilderInputs ==
    { [content |-> Text(n), start |-> st, end |-> n - back, doc |-> Text(d),
       name |-> "n"] :
        n \in TextLengths, st \in 0..1, back \in 0..1, d \in 0..MaxTextLen }

BuilderInit ==
    /\ trInput \in { inp \in BuilderInputs : inp.start <= inp.end }
    /\ trConfig \in [max_doc_length : {SmallDocLength, DefaultMaxDocLength},
                     max_code_length : {SmallCodeLength, DefaultMaxCodeLength}]
    /\ trChunk = NoChunk
    /\ trPc = "call"

Build(builder, chunk) ==
    /\ trPc = "call"
    /\ trChunk' = [builder |-> builder, documentation |-> chunk.documentation,
                   code |-> chunk.code]
    /\ trPc' = "built"
    /\ UNCHANGED <<trInput, trConfig>>

BuildDartClass == Build("dart_class", DartClassChunk(trInput, trConfig))

BuildDartFunction == Build("dart_function", DartFunctionChunk(trInput, trConfig))

BuildMarkdownSection == Build("markdown", MarkdownSectionChunk(trInput, trConfig))

BuildJson == Build("json", JsonChunk(trInput, trConfig))

BuildYamlFile == Build("yaml_config", YamlFileChunk(trInput, trConfig))

BuildYamlSection == Build("yaml_section", YamlSectionChunk(trInput, trConfig))

BuildBrace == Build("brace", BraceChunk(trInput, trConfig))

BuildSvelteFunction == Build("svelte_function", SvelteFunctionChunk(trInput, trConfig))

BuildSvelteComponent == Build("component", SvelteComponentChunk(trInput, trConfig))

BuildHtmlScript == Build("script", HtmlScriptChunk(trInput, trConfig))

BuildHtmlFile == Build("html", HtmlFileChunk(trInput, trConfig))

BuilderNext ==
    /\ \/ BuildDartClass
       \/ BuildDartFunction
       \/ BuildMarkdownSection
       \/ BuildJson
       \/ BuildYamlFile
       \/ BuildYamlSection
       \/ BuildBrace
       \/ BuildSvelteFunction
       \/ BuildSvelteComponent
       \/ BuildHtmlScript
       \/ BuildHtmlFile
    /\ UNCHANGED <<runVars, flVars, mdVars, exVars, fxVars>>

InitBuilder ==
    RunOff /\ FilterOff /\ MarkdownOff /\ BuilderInit /\ ExtractionOff /\ ExtractorOff

SpecBuilder == InitBuilder /\ [][BuilderNext]_vars

\* C9 as claimed: every chunk built by any extractor has a documentation of at
\* most max_doc_length characters and a code of at most max_code_length
\* characters plus the truncation marker
C9_TruncationLaws ==
    trPc = "built" =>
        /\ Len(trChunk.documentation) <= trConfig.max_doc_length
        /\ Len(trChunk.code) <= trConfig.max_code_length + Len(TruncationMarker)

-----------------------------------------------------------------------------
(* DevVectorizer._extract_chunks_with_progress *)

\* repo_path, and the files a repository can hold, in the order glob yields them
RepoPath == "r"

RepoPathSeq ==
    << "r/lib/a.dart", "r/lib/m.g.dart", "r/example/e.dart", "r/doc/a.md", "r/test/t.md", "r/doc/b.mdx",
       "r/lex/a.json", "r/p.yaml", "r/q.yml", "r/src/a.rs", "r/test/t.rs",
       "r/w/a.js", "r/w/a.ts", "r/w/A.svelte", "r/w/i.html" >>

\* The file can be read and parsed, cannot be read (read_text raises), or is
\* read but is not well-formed
FileConditions == {"ok", "unreadable", "malformed"}

\* the passes of the loop, in order, with the glob patterns of each
Passes ==
    << [dialect |-> "dart",   exts |-> {".dart"},         filtered |-> TRUE],
       [dialect |-> "md",     exts |-> {".md"},           filtered |-> FALSE],
       [dialect |-> "mdx",    exts |-> {".mdx"},          filtered |-> FALSE],
       [dialect |-> "json",   exts |-> {".json"},         filtered |-> TRUE],
       [dialect |-> "yaml",   exts |-> {".yaml", ".yml"}, filtered |-> TRUE],
       [dialect |-> "rust",   exts |-> {".rs"},           filtered |-> TRUE],
       [dialect |-> "js",     exts |-> {".js"},           filtered |-> TRUE],
       [dialect |-> "ts",     exts |-> {".ts"},           filtered |-> TRUE],
       [dialect |-> "svelte", exts |-> {".svelte"},       filtered |-> TRUE],
       [dialect |-> "html",   exts |-> {".html"},         filtered |-> TRUE] >>

\* repo_path.glob("**/*.ext") for the patterns of a pass, then the filter where
\* the code applies it
RECURSIVE SelectPaths(_, _, _, _)
SelectPaths(present, pass, cfg, i) ==
    IF i > Len(RepoPathSeq) THEN <<>>
    ELSE LET path == RepoPathSeq[i]
             rest == SelectPaths(present, pass, cfg, i + 1)
         IN  IF /\ path \in present
                /\ \E x \in pass.exts : EndsWith(PathName(path), x)
                /\ (pass.filtered => _should_process_file(path, cfg))
             THEN <<path>> \o rest ELSE rest

RECURSIVE FilesToProcess(_, _, _)
FilesToProcess(present, cfg, p) ==
    IF p > Len(Passes) THEN <<>>
    ELSE SelectPaths(present, Passes[p], cfg, 1) \o FilesToProcess(present, cfg, p + 1)

DialectOf(path) ==
    (CHOOSE p \in Range(Passes) : \E x \in p.exts : EndsWith(PathName(path), x)).dialect

\* str(file_path.relative_to(repo_path))
RelativePath(path) == SubSeq(path, Len(RepoPath) + 2, Len(path))

Warning(msg, path) == [msg |-> msg, path |-> path]

FileChunk(path) == [file_path |-> RelativePath(path), dialect |-> DialectOf(path)]

\* extractors that all catch their own exceptions and record a warning
Extractor_NeverRaises(dialect, path, condition) ==
    IF condition = "ok" \/ (condition = "malformed" /\ dialect \notin {"json", "yaml"})
    THEN [raised |-> FALSE, chunks |-> <<FileChunk(path)>>,
          warnings |-> <<>>, console |-> <<>>]
    ELSE [raised |-> FALSE, chunks |-> <<>>,
          warnings |-> <<Warning("Failed to process", path)>>, console |-> <<>>]

\* What the extractor of a dialect does with a file in a condition: it raises
\* (Dart, Markdown: read_text is outside any try), or returns its chunks after
\* recording a warning (JSON, YAML) or printing to the console only (Rust, JS,
\* TS, Svelte, HTML).
Extractor(dialect, path, condition) ==
    LET fine == [raised |-> FALSE, chunks |-> <<FileChunk(path)>>,
                 warnings |-> <<>>, console |-> <<>>]
        none == [raised |-> FALSE, chunks |-> <<>>, warnings |-> <<>>, console |-> <<>>]
    IN  IF dialect \in {"dart", "md", "mdx"}
        THEN IF condition = "unreadable" THEN [none EXCEPT !.raised = TRUE] ELSE fine
        ELSE IF dialect = "json"
        THEN IF condition = "ok" THEN fine
             ELSE [none EXCEPT !.warnings = <<Warning("Failed to parse JSON", path)>>]
        ELSE IF dialect = "yaml"
        THEN IF condition = "ok" THEN fine
             ELSE [none EXCEPT !.warnings = <<Warning("Failed to parse YAML", path)>>]
        ELSE IF condition = "unreadable" THEN [none EXCEPT !.console = <<path>>]
             ELSE fine

\* the extraction of the file fails: it cannot be read, or it is a
\* structured-data file that does not parse
ExtractionFails(path, condition) ==
    \/ condition = "unreadable"
    \/ condition = "malformed" /\ DialectOf(path) \in {"json", "yaml"}

Repositories ==
    UNION { [present -> FileConditions] :
              present \in { ps \in SUBSET Range(RepoPathSeq) : Cardinality(ps) <= MaxFiles } }

ExtractionInit ==
    /\ exConfig \in [include_tests : BOOLEAN, include_generated : BOOLEAN]
    /\ repo \in Repositories
    /\ exQueue = <<>>
    /\ exChunks = <<>>
    /\ processed = 0
    /\ exWarnings = <<>>
    /\ exConsole = <<>>
    /\ extractorCalls = <<>>
    /\ exRepository = NoCounts
    /\ exPc = "scan"

\* the globs and the filter: the lists of files to process
ScanRepository ==
    /\ exPc = "scan"
    /\ exQueue' = FilesToProcess(DOMAIN repo, exConfig, 1)
    /\ exPc' = "loop"
    /\ UNCHANGED <<exConfig, repo, exChunks, processed, exWarnings, exConsole,
                   extractorCalls, exRepository>>

\* one iteration of one of the for loops: try: extract, extend, processed += 1
\* except Exception: self.stats.warnings.append("Failed to process ...")
ProcessFile ==
    /\ exPc = "loop"
    /\ exQueue # <<>>
    /\ LET path == Head(exQueue)
           r == Extractor(DialectOf(path), path, repo[path])
       IN  /\ extractorCalls' = Append(extractorCalls, path)
           /\ exConsole' = exConsole \o r.console
           /\ IF r.raised
              THEN /\ exWarnings' = Append(exWarnings, Warning("Failed to process", path))
                   /\ UNCHANGED <<exChunks, processed>>
              ELSE /\ exWarnings' = exWarnings \o r.warnings
                   /\ exChunks' = exChunks \o r.chunks
                   /\ processed' = processed + 1
    /\ exQueue' = Tail(exQueue)
    /\ UNCHANGED <<exConfig, repo, exRepository, exPc>>

CountDialects(paths, ds) ==
    Cardinality({ i \in 1..Len(paths) : DialectOf(paths[i]) \in ds })

\* after the last pass: the repository counters are set, chunks are returned
FinishExtraction ==
    /\ exPc = "loop"
    /\ exQueue = <<>>
    /\ exRepository' =
          [dart_files |-> CountDialects(extractorCalls,
                                        {"dart", "rust", "js", "ts", "svelte"}),
           md_files |-> CountDialects(extractorCalls, {"md", "mdx"}),
           json_files |-> CountDialects(extractorCalls, {"json"}),
           total_files |-> processed]
    /\ exPc' = "done"
    /\ UNCHANGED <<exConfig, repo, exQueue, exChunks, processed, exWarnings,
                   exConsole, extractorCalls>>

ExtractionNext ==
    /\ \/ ScanRepository
       \/ ProcessFile
       \/ FinishExtraction
    /\ UNCHANGED <<runVars, flVars, mdVars, trVars, fxVars>>

InitExtraction ==
    RunOff /\ FilterOff /\ MarkdownOff /\ BuilderOff /\ ExtractionInit /\ ExtractorOff

SpecExtraction == InitExtraction /\ [][ExtractionNext]_vars

\* C7 as claimed: in every dialect a file whose extraction fails has a warning
\* naming it in stats.warnings and no chunk in the result, and the files
\* after it are still processed
C7_ExtractionFailureWarned ==
    /\ \A path \in Range(extractorCalls) :
          ExtractionFails(path, repo[path]) =>
              /\ \E w \in Range(exWarnings) : w.path = path
              /\ \A c \in Range(exChunks) : c.file_path # RelativePath(path)
    /\ exPc = "done" =>
          extractorCalls = FilesToProcess(DOMAIN repo, exConfig, 1)

\* C11 as claimed: a candidate file whose path contains 'test' is not
\* processed when include_tests is false and is processed when it is true; a
\* file whose path contains 'example' is not processed exactly when
\* include_tests is false
C11_TestAndExamplePolicy ==
    exPc = "done" =>
        \A path \in DOMAIN repo :
            /\ Contains("test", path) =>
                  (path \in Range(extractorCalls) <=> exConfig.include_tests)
            /\ Contains("example", path) =>
                  (path \in Range(extractorCalls) <=> exConfig.include_tests)

\* C12 as claimed: no file rejected by _should_process_file is ever passed to
\* an extractor, Markdown and MDX files included
C12_FilterBeforeEveryExtractor ==
    \A path \in Range(extractorCalls) : _should_process_file(path, exConfig)

\* the files passed to an extractor so far whose extractor threw into the
\* loop: the Dart, Markdown and MDX files that cannot be read (their
\* extractors read the file outside any try)
ThrownFiles ==
    { path \in Range(extractorCalls) :
        DialectOf(path) \in {"dart", "md", "mdx"} /\ repo[path] = "unreadable" }

WarningsOf(path) == { i \in 1..Len(exWarnings) : exWarnings[i].path = path }

\* C24 as claimed: a file whose extractor throws is counted by the processed
\* counter all the same (so every file passed to an extractor is counted), a
\* warning is recorded for it, and the counter is reported as total_files
C24_CountedEvenWhenExtractorThrows ==
    /\ processed = Len(extractorCalls)
    /\ \A path \in ThrownFiles : WarningsOf(path) # {}
    /\ exPc = "done" => exRepository.total_files = processed

\* C24 amended: the counter is incremented exactly for the files whose
\* extractor returned. A file whose extractor threw (an unreadable Dart,
\* Markdown or MDX file) has one 'Failed to process' warning and is not
\* counted; a JSON or YAML file that cannot be read or parsed is counted and
\* has the warning its extractor recorded; an unreadable Rust, JS, TS, Svelte
\* or HTML file is counted and has no warning. The counter is reported as
\* total_files.
C24_CountedUnlessExtractorThrows ==
    /\ processed = Len(extractorCalls) - Cardinality(ThrownFiles)
    /\ \A path \in Range(extractorCalls) :
          LET d == DialectOf(path)
          IN  /\ path \in ThrownFiles =>
                    /\ Cardinality(WarningsOf(path)) = 1
                    /\ \A i \in WarningsOf(path) : exWarnings[i].msg = "Failed to process"
              /\ (d \in {"json", "yaml"} /\ repo[path] # "ok") =>
                    /\ Cardinality(WarningsOf(path)) = 1
                    /\ \A i \in WarningsOf(path) : exWarnings[i].msg # "Failed to process"
              /\ (d \in {"rust", "js", "ts", "svelte", "html"}
                     /\ repo[path] = "unreadable") =>
                    /\ WarningsOf(path) = {}
                    /\ path \in Range(exConsole)
              /\ repo[path] = "ok" => WarningsOf(path) = {}
    /\ exPc = "done" =>
          /\ exRepository.total_files = processed
          /\ extractorCalls = FilesToProcess(DOMAIN repo, exConfig, 1)

\* C24 witness: an unreadable Dart file and a JSON file that does not parse
\* were processed: both have a warning, only the JSON file is counted
C24_Witness ==
    /\ exPc = "done"
    /\ extractorCalls = <<"r/lib/a.dart", "r/lex/a.json">>
    /\ repo["r/lib/a.dart"] = "unreadable"
    /\ repo["r/lex/a.json"] = "malformed"
    /\ Len(exWarnings) = 2
    /\ exRepository.total_files = 1

-----------------------------------------------------------------------------
(* The region scans of the brace dialects, and the line numbers and paths   *)
(* of the chunks built from a region                                        *)

\* for i in range(start_pos, len(content)): the loop of the Rust and JS
\* extractors and of the TypeScript function/class branch, from index i
\* (0-based) with the counters as they stand; semicolon is TRUE for the
\* TypeScript interface/type branch, which also stops at a ';' met before any
\* opening brace. The result is found_opening and end_pos (start_pos when
\* the loop ran to the end of the file).
RECURSIVE BraceScanFrom(_, _, _, _, _, _)
BraceScanFrom(content, start_pos, i, brace_count, found_opening, semicolon) ==
    IF i >= Len(content)
    THEN [found_opening |-> found_opening, end_pos |-> start_pos]
    ELSE LET c == CharAt(content, i + 1)
         IN  IF c = "{"
             THEN BraceScanFrom(content, start_pos, i + 1, brace_count + 1, TRUE, semicolon)
             ELSE IF c = "}"
             THEN IF found_opening /\ brace_count - 1 = 0
                  THEN [found_opening |-> found_opening, end_pos |-> i + 1]
                  ELSE BraceScanFrom(content, start_pos, i + 1, brace_count - 1,
                                     found_opening, semicolon)
             ELSE IF semicolon /\ c = ";" /\ ~found_opening
             THEN [found_opening |-> found_opening, end_pos |-> i + 1]
             ELSE BraceScanFrom(content, start_pos, i + 1, brace_count,
                                found_opening, semicolon)

\* a scan that stops at the first closing brace after an opening one
BraceScan_FirstClose(content, start_pos, semicolon) ==
    LET opens == { i \in start_pos..(Len(content) - 1) : CharAt(content, i + 1) = "{" }
        closes == { i \in start_pos..(Len(content) - 1) :
                      /\ CharAt(content, i + 1) = "}"
                      /\ \E o \in opens : o < i }
    IN  IF closes = {}
        THEN [found_opening |-> opens # {}, end_pos |-> start_pos]
        ELSE [found_opening |-> TRUE,
              end_pos |-> (CHOOSE i \in closes : \A k \in closes : i <= k) + 1]

BraceScan(content, start_pos, semicolon) ==
    BraceScanFrom(content, start_pos, start_pos, 0, FALSE, semicolon)

\* the while loop of the Dart class extractor from pos, after the opening
\* brace that ends the match: class_end
RECURSIVE DartClassEndFrom(_, _, _, _)
DartClassEndFrom(content, pos, brace_count, class_end) ==
    IF ~(brace_count > 0 /\ pos < Len(content)) THEN class_end
    ELSE LET c == CharAt(content, pos + 1)
             n == IF c = "{" THEN brace_count + 1
                  ELSE IF c = "}" THEN brace_count - 1 ELSE brace_count
         IN  DartClassEndFrom(content, pos + 1, n, IF n = 0 THEN pos + 1 ELSE class_end)

DartClassEnd(content, match_end) == DartClassEndFrom(content, match_end, 1, match_end)

\* content[:pos].count('\n') + 1
LineOf(content, pos) ==
    Cardinality({ i \in 1..Min(pos, Len(content)) : CharAt(content, i) = "\n" }) + 1

\* relative_path written to the chunk and to its metadata
ChunkPath_Absolute(path) == path

ChunkPath(path) == RelativePath(path)

\* The chunk of a region: the fields the line and path laws are about
RegionChunk(path, content, start, end, code) ==
    [file_path |-> ChunkPath(path),
     metadata_file_path |-> ChunkPath(path),
     code |-> code,
     start |-> start,
     end |-> end,
     line_start |-> LineOf(content, start),
     line_end |-> LineOf(content, end)]

DefaultConfig ==
    [max_doc_length |-> DefaultMaxDocLength, max_code_length |-> DefaultMaxCodeLength]

\* Rust and JS: the chunk is built when an opening brace was found
BraceChunks(path, content, start_pos) ==
    LET r == BraceScan(content, start_pos, FALSE)
    IN  IF r.found_opening
        THEN <<RegionChunk(path, content, start_pos, r.end_pos,
                           Slice(content, start_pos, r.end_pos))>>
        ELSE <<>>

\* TypeScript: the chunk is built when the scan moved end_pos
TsChunks(path, content, start_pos, semicolon) ==
    LET r == BraceScan(content, start_pos, semicolon)
    IN  IF r.end_pos > start_pos
        THEN <<RegionChunk(path, content, start_pos, r.end_pos,
                           Slice(content, start_pos, r.end_pos))>>
        ELSE <<>>

\* Dart classes: the chunk is always built
DartClassChunks(path, content, start, match_end) ==
    LET class_end == DartClassEnd(content, match_end)
        inp == [content |-> content, start |-> start, end |-> class_end,
                doc |-> "", name |-> "n"]
    IN  <<RegionChunk(path, content, start, class_end,
                      DartClassChunk(inp, DefaultConfig).code)>>

\* Markdown sections
MarkdownRegionChunks(path, content) ==
    LET cs == _extract_markdown_chunks(content, DefaultConfig)
    IN  [k \in 1..Len(cs) |->
            [file_path |-> ChunkPath(path),
             metadata_file_path |-> ChunkPath(path),
             code |-> "",
             start |-> cs[k].line_start,
             end |-> cs[k].line_end,
             line_start |-> cs[k].line_start,
             line_end |-> cs[k].line_end]]

BraceExample == "fn f() { if (x) { return 1; } return 2; }"

ScanAlphabet == {"{", "}", ";", "a", "\n"}

RECURSIVE Concat(_)
Concat(ss) == IF ss = <<>> THEN "" ELSE Head(ss) \o Concat(Tail(ss))

ScanTexts ==
    { Concat(cs) : cs \in UNION { [1..n -> ScanAlphabet] : n \in 1..MaxScanLen } }
        \cup {BraceExample}

ScanKinds == {"rust", "js", "ts_block", "ts_type", "dart_class", "markdown"}

ScanPaths == {"r/a", "r/lib/a"}

ScanInit ==
    /\ fxKind \in ScanKinds
    /\ fxPath \in ScanPaths
    /\ fxContent \in IF fxKind = "markdown" THEN MdFiles ELSE ScanTexts
    /\ fxStart \in IF fxKind = "markdown" THEN {0}
                   ELSE IF fxContent = BraceExample THEN {0}
                   ELSE 0..(Len(fxContent) - 1)
    /\ fxMatchEnd \in IF fxKind = "dart_class"
                      THEN { e \in (fxStart + 1)..Len(fxContent) : CharAt(fxContent, e) = "{" }
                      ELSE {fxStart + 1}
    /\ fxChunks = <<>>
    /\ fxWarnings = <<>>
    /\ fxPc = "call"

ScanDone(file_chunks) ==
    /\ fxChunks' = file_chunks
    /\ fxPc' = "done"
    /\ UNCHANGED <<fxKind, fxPath, fxContent, fxStart, fxMatchEnd, fxWarnings>>

ScanRust ==
    /\ fxPc = "call" /\ fxKind = "rust"
    /\ ScanDone(BraceChunks(fxPath, fxContent, fxStart))

ScanJs ==
    /\ fxPc = "call" /\ fxKind = "js"
    /\ ScanDone(BraceChunks(fxPath, fxContent, fxStart))

ScanTsBlock ==
    /\ fxPc = "call" /\ fxKind = "ts_block"
    /\ ScanDone(TsChunks(fxPath, fxContent, fxStart, FALSE))

ScanTsType ==
    /\ fxPc = "call" /\ fxKind = "ts_type"
    /\ ScanDone(TsChunks(fxPath, fxContent, fxStart, TRUE))

ScanDartClass ==
    /\ fxPc = "call" /\ fxKind = "dart_class"
    /\ ScanDone(DartClassChunks(fxPath, fxContent, fxStart, fxMatchEnd))

ScanMarkdown ==
    /\ fxPc = "call" /\ fxKind = "markdown"
    /\ ScanDone(MarkdownRegionChunks(fxPath, fxContent))

ScanNext ==
    /\ \/ ScanRust
       \/ ScanJs
       \/ ScanTsBlock
       \/ ScanTsType
       \/ ScanDartClass
       \/ ScanMarkdown
    /\ UNCHANGED <<runVars, flVars, mdVars, trVars, exVars>>

InitScan ==
    RunOff /\ FilterOff /\ MarkdownOff /\ BuilderOff /\ ExtractionOff /\ ScanInit

SpecScan == InitScan /\ [][ScanNext]_vars

\* Brace depth of content[a:b]: opening minus closing braces
Depth(content, a, b) ==
    Cardinality({ i \in (a + 1)..b : CharAt(content, i) = "{" })
        - Cardinality({ i \in (a + 1)..b : CharAt(content, i) = "}" })

\* the closing brace at index k (0-based) brings the depth counted from start
\* back to zero after an opening brace
ClosesAt(content, start, k) ==
    /\ CharAt(content, k + 1) = "}"
    /\ \E o \in start..(k - 1) : CharAt(content, o + 1) = "{"
    /\ Depth(content, start, k + 1) = 0

\* the ';' at index k comes before any brace opened since start
SemicolonAt(content, start, k) ==
    /\ CharAt(content, k + 1) = ";"
    /\ \A o \in start..(k - 1) : CharAt(content, o + 1) # "{"

RegionEnds(content, start, semicolon) ==
    { k + 1 : k \in { i \in start..(Len(content) - 1) :
                        \/ ClosesAt(content, start, i)
                        \/ semicolon /\ SemicolonAt(content, start, i) } }

First(S) == CHOOSE x \in S : \A y \in S : x <= y

BraceKinds == {"rust", "js", "ts_block", "ts_type"}

\* C13 as claimed: in the Rust, JS and TS scans a region that has an end ends
\* just after the closing brace at which the depth first returns to zero
\* after an opening brace
C13_RegionEndsAtBalancedBrace ==
    (fxPc = "done" /\ fxKind \in BraceKinds) =>
        \A c \in Range(fxChunks) :
            c.end > fxStart =>
                /\ RegionEnds(fxContent, fxStart, FALSE) # {}
                /\ c.end = First(RegionEnds(fxContent, fxStart, FALSE))

\* C13 amended: the region ends just after the closing brace at which the
\* depth first returns to zero after an opening brace, except that the
\* TypeScript interface/type scan ends it just after a ';' met before any
\* opening brace; the region's code is the text from the match to that end,
\* and the example's region is the whole outer block
C13_RegionEndsAtBalancedBraceOrSemicolon ==
    (fxPc = "done" /\ fxKind \in BraceKinds) =>
        LET ends == RegionEnds(fxContent, fxStart, fxKind = "ts_type")
        IN  /\ \A c \in Range(fxChunks) :
                  c.end > fxStart =>
                      /\ ends # {}
                      /\ c.end = First(ends)
                      /\ c.code = SubSeq(fxContent, fxStart + 1, c.end)
            /\ ends # {} =>
                  /\ Len(fxChunks) = 1
                  /\ fxChunks[1].end = First(ends)
            /\ fxContent = BraceExample =>
                  /\ Len(fxChunks) = 1
                  /\ fxChunks[1].code = BraceExample

\* C13 witness: the example was scanned and its region goes past the inner
\* block's closing brace to the end of the outer block
C13_Witness ==
    /\ fxPc = "done"
    /\ fxKind = "rust"
    /\ fxContent = BraceExample
    /\ Len(fxChunks) = 1
    /\ fxChunks[1].end = Len(BraceExample)
    /\ fxChunks[1].end > 29

\* C14 as claimed: a match whose region is never terminated (no opening
\* brace, or no closing brace that balances it before the end of the file)
\* yields no chunk, in Dart classes, Rust, JS and TS
C14_UnterminatedYieldsNothing ==
    (fxPc = "done" /\ fxKind \in BraceKinds \cup {"dart_class"}) =>
        LET ends == IF fxKind = "dart_class"
                    THEN RegionEnds(fxContent, fxMatchEnd - 1, FALSE)
                    ELSE RegionEnds(fxContent, fxStart, fxKind = "ts_type")
        IN  ends = {} => fxChunks = <<>>

\* C15: every returned chunk with both line numbers has line_end >=
\* line_start, also when its region was not terminated, and the file_path of
\* the chunk and of its metadata is the file's path relative to the scan root
C15_LinesOrderedAndPathRelative ==
    fxPc = "done" =>
        \A c \in Range(fxChunks) :
            /\ c.line_end >= c.line_start
            /\ c.line_start >= 1
            /\ RepoPath \o "/" \o c.metadata_file_path = fxPath
            /\ c.file_path = c.metadata_file_path

\* C15 witness: a chunk of an unterminated region, on a later line of a file
\* in a subdirectory
C15_Witness ==
    /\ fxPc = "done"
    /\ fxKind = "rust"
    /\ fxPath = "r/lib/a"
    /\ Len(fxChunks) = 1
    /\ fxChunks[1].end = fxStart
    /\ fxChunks[1].line_start = 2
    /\ fxChunks[1].line_end = 2

-----------------------------------------------------------------------------
(* DevVectorizer._extract_json_chunks *)

\* Parsed JSON values: a string, null, a list, or a mapping held as the
\* sequence of its <<key, value>> pairs in document order
JStr(x) == [t |-> "str", s |-> x, m |-> <<>>]

JNull == [t |-> "null", s |-> "", m |-> <<>>]

JList == [t |-> "list", s |-> "", m |-> <<>>]

JMap(pairs) == [t |-> "map", s |-> "", m |-> pairs]

\* key in mapping
HasKey(v, key) == \E i \in 1..Len(v.m) : v.m[i][1] = key

\* mapping.get(key, default)
Get(v, key, default) ==
    IF HasKey(v, key) THEN v.m[CHOOSE i \in 1..Len(v.m) : v.m[i][1] = key][2]
    ELSE default

\* pydantic accepts the value for a field declared str
ValidStr(v) == v.t = "str"

LexiconChunk(path, name, documentation, signature) ==
    [type |-> "lexicon",
     name |-> name,
     file_path |-> ChunkPath(path),
     metadata_file_path |-> ChunkPath(path),
     documentation |-> documentation,
     signature |-> signature]

JsonWarning(path) == Warning("Failed to parse JSON", path)

\* for def_name, def_content in content['defs'].items(), from entry i on,
\* with the chunks appended so far; an exception ends the loop in the
\* handler, which appends the warning, and the chunks so far are returned
RECURSIVE JsonDefsFrom(_, _, _, _, _)
JsonDefsFrom(path, lexicon_id, defs, i, sofar) ==
    IF i > Len(defs) THEN [chunks |-> sofar, warnings |-> <<>>]
    ELSE LET def_name == defs[i][1]
             def_content == defs[i][2]
             name == lexicon_id \o "#" \o def_name
         IN  IF def_content.t = "map" /\ HasKey(def_content, "description")
             THEN IF ~ValidStr(Get(def_content, "description", JStr("")))
                  THEN [chunks |-> sofar, warnings |-> <<JsonWarning(path)>>]
                  ELSE JsonDefsFrom(path, lexicon_id, defs, i + 1,
                          Append(sofar,
                                 LexiconChunk(path, name,
                                              Get(def_content, "description", JStr("")).s,
                                              name)))
             ELSE JsonDefsFrom(path, lexicon_id, defs, i + 1, sofar)

\* file is [condition, doc]: the file's condition and, when it parses, the
\* value json.loads returns
_extract_json_chunks(path, file) ==
    LET content == file.doc
        failed == [chunks |-> <<>>, warnings |-> <<JsonWarning(path)>>]
    IN  IF file.condition # "ok" THEN failed
        ELSE IF content.t # "map" THEN failed
        ELSE LET lexicon_id == Get(content, "id", JStr(PathStem(path)))
                 description == Get(content, "description", JStr(""))
             IN  IF ~ValidStr(lexicon_id) \/ ~ValidStr(description) THEN failed
                 ELSE LET main == LexiconChunk(path, lexicon_id.s, description.s,
                                               "Lexicon: " \o lexicon_id.s)
                      IN  IF ~HasKey(content, "defs") THEN
                              [chunks |-> <<main>>, warnings |-> <<>>]
                          ELSE IF Get(content, "defs", JNull).t # "map" THEN
                              [chunks |-> <<main>>, warnings |-> <<JsonWarning(path)>>]
                          ELSE JsonDefsFrom(path, lexicon_id.s,
                                            Get(content, "defs", JNull).m, 1, <<main>>)

DefNames == <<"bar", "baz", "qux">>

DefValues ==
    { JStr("x"), JMap(<<>>), JMap(<< <<"description", JStr("b")>> >>),
      JMap(<< <<"description", JNull>> >>), JMap(<< <<"type", JStr("query")>> >>) }

\* mappings of up to MaxDefs definitions, keys in document order
DefMaps ==
    UNION { { JMap([i \in 1..n |-> <<DefNames[i], vs[i]>>]) : vs \in [1..n -> DefValues] } :
              n \in 0..MaxDefs } \cup {JList}

JsonDocs ==
    {JList, JStr("s")} \cup
    UNION { { JMap(idp \o dp \o fp) :
                idp \in { <<>>, << <<"id", JStr("com.example.foo")>> >>,
                          << <<"id", JNull>> >> },
                dp \in { <<>>, << <<"description", JStr("d")>> >>,
                         << <<"description", JNull>> >> },
                fp \in { <<>> } \cup { << <<"defs", d>> >> : d \in DefMaps } } }

JsonExample ==
    JMap(<< <<"id", JStr("com.example.foo")>>, <<"description", JStr("d")>>,
            <<"defs", JMap(<< <<"bar", JMap(<< <<"description", JStr("b")>> >>)>> >>)>> >>)

JsonFiles ==
    { [condition |-> "ok", doc |-> d] : d \in JsonDocs }
        \cup { [condition |-> c, doc |-> JNull] : c \in {"unreadable", "malformed"} }

JsonInit ==
    /\ fxKind = "json"
    /\ fxPath \in {"r/lex/a.json", "r/b.json"}
    /\ fxContent \in JsonFiles
    /\ fxStart = 0
    /\ fxMatchEnd = 0
    /\ fxChunks = <<>>
    /\ fxWarnings = <<>>
    /\ fxPc = "call"

ExtractJsonChunks ==
    /\ fxPc = "call"
    /\ fxKind = "json"
    /\ LET r == _extract_json_chunks(fxPath, fxContent)
       IN  /\ fxChunks' = r.chunks
           /\ fxWarnings' = r.warnings
    /\ fxPc' = "done"
    /\ UNCHANGED <<fxKind, fxPath, fxContent, fxStart, fxMatchEnd>>

JsonNext ==
    ExtractJsonChunks /\ UNCHANGED <<runVars, flVars, mdVars, trVars, exVars>>

InitJson ==
    RunOff /\ FilterOff /\ MarkdownOff /\ BuilderOff /\ ExtractionOff /\ JsonInit

SpecJson == InitJson /\ [][JsonNext]_vars

ChunkNames(cs) == [i \in 1..Len(cs) |-> cs[i].name]

\* the names the claim gives the chunks of a mapping: the id, then id#def
\* for each entry of defs that is a mapping with a 'description' field
RECURSIVE DescribedDefs(_, _, _)
DescribedDefs(id, defs, i) ==
    IF i > Len(defs) THEN <<>>
    ELSE IF defs[i][2].t = "map" /\ HasKey(defs[i][2], "description")
         THEN <<id \o "#" \o defs[i][1]>> \o DescribedDefs(id, defs, i + 1)
         ELSE DescribedDefs(id, defs, i + 1)

\* C16 as claimed: a document that is a mapping with an 'id' yields exactly
\* the whole-document chunk named by the id and one chunk id#def per entry of
\* 'defs' that is a mapping with a 'description' field; the example yields
\* com.example.foo and com.example.foo#bar; a document that fails to parse
\* yields no chunk and one warning
C16_JsonChunks ==
    (fxPc = "done" /\ fxKind = "json") =>
        /\ (fxContent.condition = "ok" /\ fxContent.doc.t = "map"
              /\ HasKey(fxContent.doc, "id")) =>
              LET id == Get(fxContent.doc, "id", JNull).s
                  defs == Get(fxContent.doc, "defs", JMap(<<>>)).m
              IN  ChunkNames(fxChunks) = <<id>> \o DescribedDefs(id, defs, 1)
        /\ fxContent.doc = JsonExample =>
              ChunkNames(fxChunks) = <<"com.example.foo", "com.example.foo#bar">>
        /\ fxContent.condition # "ok" =>
              fxChunks = <<>> /\ Len(fxWarnings) = 1

-----------------------------------------------------------------------------
(* Order of the batches and of the records of a batch; the store *)

\* C17: the batches are embedded strictly one after another in input order,
\* batch k+1 only after batch k was uploaded or recorded as failed, the
\* embedding function is called once per batch, and the i-th point handed to
\* the upsert is built from the i-th chunk of the batch and the i-th vector
\* returned for it
C17_SequentialBatchesOrderedRecords ==
    LET n == TotalBatches(chunks, config.batch_size)
    IN  /\ \A k \in 1..Len(embedCalls) :
              /\ embedCalls[k] = k
              /\ Len(batchResult) >= k - 1
        /\ \A b \in 1..n : Count(embedCalls, b) <= 1
        /\ UploadOver => \A b \in 1..n : Count(embedCalls, b) = 1
        /\ pc = "upsert" =>
              LET batch == BatchAt(chunks, batch_idx, config.batch_size)
              IN  /\ Len(batchResult) = Len(embedCalls) - 1
                  /\ Len(points) = Len(batch)
                  /\ \A i \in 1..Len(points) :
                        /\ points[i].id = PointId(batch[i])
                        /\ points[i].payload.signature = batch[i].signature
                        /\ points[i].vector = get_embedding_text(batch[i])

\* C17 witness: the second batch is being upserted after the first failed,
\* and a batch of two chunks with different vectors is being upserted
C17_Witness ==
    /\ pc = "upsert"
    /\ Len(points) = 2
    /\ points[1].vector # points[2].vector
    /\ points[1].payload.signature # points[2].payload.signature

\* C18: records of an upserted batch stay in the store in every later step
\* of the run: no step removes a record, the store changes only in the step
\* of a successful upsert, and that step changes only the records the batch
\* names
C18_UploadedRecordsPersist ==
    [][ /\ DOMAIN store \subseteq DOMAIN store'
        /\ \A id \in DOMAIN store :
              store'[id] # store[id] => \E i \in 1..Len(points) : points[i].id = id
        /\ store' # store =>
              /\ pc = "upsert"
              /\ Len(batchResult') = Len(batchResult) + 1
              /\ batchResult'[Len(batchResult')] = "ok" ]_vars

\* C18 witness: the first batch is in the store and the second batch has
\* failed all its retries
C18_Witness ==
    /\ Len(batchResult) >= 2
    /\ batchResult[1] = "ok"
    /\ batchResult[2] = "upload_failed"
    /\ \A i \in 1..Len(BatchAt(chunks, 0, config.batch_size)) :
          PointId(chunks[i]) \in DOMAIN store

-----------------------------------------------------------------------------
(* The upload of chunks with every kind of signature, documentation, name *)

TextChunks ==
    { [type |-> "function", name |-> n, file_path |-> "a.rs", documentation |-> d,
       code |-> "", signature |-> sg] :
        n \in {"f", "Intro", ""}, d \in {"", " ", "doc", " d "},
        sg \in {"fn f() {", "Title"} }

TextChunkLists == UNION { [1..n -> TextChunks] : n \in 1..MaxTextChunks }

\* _vectorize_and_upload_with_details is entered with one of the lists
UploadStart(lists) ==
    /\ mode = "full"
    /\ pc = "batch"
    /\ run = 1
    /\ config \in [batch_size : 1..MaxBatchSize,
                   max_memory_percent : {DefaultMaxMemoryPercent}]
    /\ chunks \in lists
    /\ stats = [NewStats EXCEPT !.chunks_created = Len(chunks)]
    /\ collection_exists = TRUE
    /\ collection_created = 0
    /\ store = EmptyStore
    /\ batch_idx = 0
    /\ total_uploaded = 0
    /\ points = <<>>
    /\ upsertLog = <<>>
    /\ memPause = 0
    /\ memory_percent = 0
    /\ memChecks = 0
    /\ batchResult = <<>>
    /\ embedCalls = <<>>
    /\ upsertBatches = <<>>
    /\ extractCalls = 1
    /\ setupResult = "ok"
    /\ firstRun = [store |-> EmptyStore, clean |-> FALSE, chunks |-> <<>>,
                   extracted |-> FALSE]

UploadInit == UploadStart(TextChunkLists)

UploadNext ==
    /\ \/ BatchBegin
       \/ EmbedBatch
       \/ UpsertAttempt
       \/ UploadDone
       \/ ReturnStats
    /\ UNCHANGED <<flVars, mdVars, trVars, exVars, fxVars>>

InitUpload ==
    UploadInit /\ FilterOff /\ MarkdownOff /\ BuilderOff /\ ExtractionOff /\ ExtractorOff

SpecUpload == InitUpload /\ [][UploadNext]_vars

-----------------------------------------------------------------------------
(* The run under the scheduling of the event loop: an awaited step (the     *)
(* sleep, the embedding, an upsert attempt) returns, so a step that can be  *)
(* taken is taken                                                           *)

\* chunk lists of every length up to the bound (what a chunk holds has no part
\* in the memory check)
PressureChunkLists ==
    { [i \in 1..n |-> CHOOSE c \in ChunkPool : c.type = "documentation"] :
        n \in 1..MaxPressureChunks }

InitPressure ==
    /\ UploadStart(PressureChunkLists)
    /\ FilterOff /\ MarkdownOff /\ BuilderOff /\ ExtractionOff /\ ExtractorOff

FairUpload == InitPressure /\ [][UploadNext]_vars /\ WF_vars(UploadNext)

\* number of batches whose iteration has begun
BatchesBegun == Len(batchResult) + (IF pc \in {"embed", "upsert"} THEN 1 ELSE 0)

\* C22: memory backpressure. The memory is sampled once per batch begun; the
\* pause before a batch is 5 when the sample exceeded max_memory_percent and 0
\* otherwise (a sample equal to the threshold does not pause); every sampled
\* batch goes on to its embedding call whatever the sample was, no batch is
\* skipped, and the run is never blocked: a pending batch is begun and the
\* run ends.
C22_MemoryBackpressure ==
    /\ [](/\ memChecks = BatchesBegun
          /\ memChecks > 0 =>
                memPause = (IF memory_percent > config.max_memory_percent
                            THEN 5 ELSE 0)
          /\ Len(embedCalls) = memChecks - (IF pc = "embed" THEN 1 ELSE 0)
          /\ embedCalls = [i \in 1..Len(embedCalls) |-> i]
          /\ UploadOver => memChecks = TotalBatches(chunks, config.batch_size))
    /\ ((pc = "batch" /\ batch_idx < Len(chunks)) ~> (pc = "embed"))
    /\ ((pc = "embed" /\ memPause > 0) ~> (pc \in {"batch", "upsert"}))
    /\ <>(pc = "returned")

\* C22 witness: the memory was above the threshold before the last of two
\* batches, the run paused 5 and the batch was uploaded
C22_Witness ==
    /\ pc = "returned"
    /\ memory_percent > config.max_memory_percent
    /\ memPause = MemorySleep
    /\ memChecks = 2
    /\ batchResult = <<"ok", "ok">>

-----------------------------------------------------------------------------
(* Claims about the texts of a record *)

\* C20 as claimed: the embedding text of every uploaded record, its
\* 'document', is the signature, the documentation and (when the name is not
\* a substring of the signature) the name joined by single spaces; its
\* information text is 'signature: documentation'
C20_EmbeddingTextAlwaysHasDocumentation ==
    \A id \in DOMAIN store :
        LET c == store[id].payload
        IN  /\ c.document =
                  IF Contains(c.name, c.signature)
                  THEN c.signature \o " " \o c.documentation
                  ELSE c.signature \o " " \o c.documentation \o " " \o c.name
            /\ c.document = store[id].vector
            /\ c.information = c.signature \o ": " \o c.documentation

\* C20 amended: the embedding text is the signature, then the documentation
\* when it is not blank, then the name when it is not empty and not a
\* substring of the signature, joined by single spaces; the information text
\* is 'signature: documentation'; the 'document' of every point handed to the
\* upsert and of every stored record is the text that was embedded for it
C20_EmbeddingTextSkipsBlankDocumentation ==
    /\ \A i \in 1..Len(chunks) :
          LET c == chunks[i]
              named == c.name # "" /\ ~Contains(c.name, c.signature)
              text == get_embedding_text(c)
          IN  /\ (IsBlank(c.documentation) /\ ~named) => text = c.signature
              /\ (IsBlank(c.documentation) /\ named) =>
                    text = c.signature \o " " \o c.name
              /\ (~IsBlank(c.documentation) /\ ~named) =>
                    text = c.signature \o " " \o c.documentation
              /\ (~IsBlank(c.documentation) /\ named) =>
                    text = c.signature \o " " \o c.documentation \o " " \o c.name
              /\ get_information_text(c) = c.signature \o ": " \o c.documentation
    /\ \A i \in 1..Len(points) : points[i].payload.document = points[i].vector
    /\ \A id \in DOMAIN store : store[id].payload.document = store[id].vector

\* C20 witness: a record whose chunk has a blank documentation and a name
\* that is not in the signature was stored
C20_Witness ==
    /\ pc = "returned"
    /\ Len(chunks) = 1
    /\ chunks[1].documentation = " "
    /\ chunks[1].name = "Intro"
    /\ chunks[1].signature = "Title"
    /\ \E id \in DOMAIN store : store[id].payload.document = "Title Intro"

-----------------------------------------------------------------------------
(* DevVectorizer._extract_svelte_chunks and _extract_html_chunks *)

\* s.find(sub, from): the first 0-based index >= from where sub occurs, or -1
Find(s, sub, from) ==
    LET at == { i \in from..(Len(s) - Len(sub)) : SubSeq(s, i + 1, i + Len(sub)) = sub }
    IN  IF at = {} THEN -1 ELSE CHOOSE i \in at : \A k \in at : i <= k

NoMatch == [found |-> FALSE, start |-> 0, inner_start |-> 0, inner_end |-> 0, end |-> 0]

\* re.search(r'<script[^>]*>(.*?)</script>', content, re.DOTALL) from an
\* offset: the opening tag runs to the first '>' after '<script', the inner
\* text (group 1) to the first '</script>' after the tag
ScriptMatch(content, from) ==
    LET p == Find(content, "<script", from)
        g == IF p = -1 THEN -1 ELSE Find(content, ">", p + 7)
        c == IF g = -1 THEN -1 ELSE Find(content, "</script>", g + 1)
    IN  IF c = -1 THEN NoMatch
        ELSE [found |-> TRUE, start |-> p, inner_start |-> g + 1, inner_end |-> c,
              end |-> c + 9]

\* re.finditer of the same pattern: the matches from an offset on, in order
RECURSIVE ScriptMatchesFrom(_, _)
ScriptMatchesFrom(content, from) ==
    LET m == ScriptMatch(content, from)
    IN  IF ~m.found THEN <<>> ELSE <<m>> \o ScriptMatchesFrom(content, m.end)

\* The function patterns of the Svelte extractor, in order, each with the
\* declarations of the files tried that it matches (the match is the text up
\* to the opening brace) and the name it captures
FunctionPatterns ==
    << [type |-> "function",
        decls |-> { [text |-> "export function g() {", name |-> "g"] }],
       [type |-> "function",
        decls |-> { [text |-> "function f() {", name |-> "f"],
                    [text |-> "function g() {", name |-> "g"] }],
       [type |-> "arrow_function",
        decls |-> { [text |-> "const h = () => {", name |-> "h"] }] >>

\* re.finditer(pattern, script_content): the declarations found from an
\* offset on, left to right, not overlapping
RECURSIVE DeclMatchesFrom(_, _, _)
DeclMatchesFrom(script_content, pattern, from) ==
    LET hits == { <<Find(script_content, d.text, from), d>> : d \in pattern.decls }
        real == { h \in hits : h[1] # -1 }
    IN  IF real = {} THEN <<>>
        ELSE LET h == CHOOSE x \in real : \A y \in real : x[1] <= y[1]
             IN  <<h[2]>> \o DeclMatchesFrom(script_content, pattern,
                                             h[1] + Len(h[2].text))

MarkupChunk(path, type, name, code) ==
    [type |-> type, name |-> name, file_path |-> ChunkPath(path), code |-> code]

\* the chunks of the function patterns from pattern k on
RECURSIVE SvelteFunctionChunksFrom(_, _, _)
SvelteFunctionChunksFrom(path, script_content, k) ==
    IF k > Len(FunctionPatterns) THEN <<>>
    ELSE LET ds == DeclMatchesFrom(script_content, FunctionPatterns[k], 0)
         IN  [i \in 1..Len(ds) |->
                 MarkupChunk(path, FunctionPatterns[k].type, ds[i].name, ds[i].text)]
             \o SvelteFunctionChunksFrom(path, script_content, k + 1)

\* file is [condition, text]; an unreadable file raises inside the try, the
\* handler prints and the empty list is returned
_extract_svelte_chunks(path, file) ==
    IF file.condition # "ok" THEN <<>>
    ELSE LET content == file.text
             script_match == ScriptMatch(content, 0)
             functions ==
                 IF script_match.found
                 THEN SvelteFunctionChunksFrom(path,
                          Slice(content, script_match.inner_start, script_match.inner_end), 1)
                 ELSE <<>>
         IN  Append(functions,
                    MarkupChunk(path, "component", PathStem(path), Preview(content)))

\* decimal digits of a small positive number
Digits(n) ==
    LET d == <<"0", "1", "2", "3", "4", "5", "6", "7", "8", "9">>
    IN  IF n < 10 THEN d[n + 1] ELSE d[(n \div 10) + 1] \o d[(n % 10) + 1]

RECURSIVE HtmlScriptChunksFrom(_, _, _, _)
HtmlScriptChunksFrom(path, content, ms, i) ==
    IF i > Len(ms) THEN <<>>
    ELSE LET script_content == Strip(Slice(content, ms[i].inner_start, ms[i].inner_end))
             rest == HtmlScriptChunksFrom(path, content, ms, i + 1)
         IN  IF script_content # ""
             THEN <<MarkupChunk(path, "script", "script_" \o Digits(i), script_content)>>
                      \o rest
             ELSE rest

_extract_html_chunks(path, file) ==
    IF file.condition # "ok" THEN <<>>
    ELSE LET content == file.text
         IN  Append(HtmlScriptChunksFrom(path, content, ScriptMatchesFrom(content, 0), 1),
                    MarkupChunk(path, "html", PathStem(path), Preview(content)))

MarkupParts ==
    { "<script>function f() { }</script>",
      "<script lang=\"ts\">export function g() { }\nconst h = () => { }</script>",
      "<script> a </script>",
      "<script>\n</script>",
      "<script>", "</script>", "<p>x</p>\n", "function f() { }" }

SvelteExample == "<script>function f() { }</script><p>x</p>\n"

HtmlExample == "<script> a </script><script>\n</script><script>b</script>"

MarkupTexts ==
    { Concat(ps) : ps \in UNION { [1..n -> MarkupParts] : n \in 0..MaxMarkupParts } }
        \cup { SvelteExample, HtmlExample,
               Text(PreviewLength), Text(PreviewLength + 1),
               "<script>b</script>" \o Text(PreviewLength) }

MarkupInit ==
    /\ fxKind \in {"svelte", "html"}
    /\ fxPath = IF fxKind = "svelte" THEN "r/w/A.svelte" ELSE "r/w/i.html"
    /\ fxContent \in { [condition |-> "ok", text |-> t] : t \in MarkupTexts }
                        \cup { [condition |-> "unreadable", text |-> ""] }
    /\ fxStart = 0
    /\ fxMatchEnd = 0
    /\ fxChunks = <<>>
    /\ fxWarnings = <<>>
    /\ fxPc = "call"

ExtractSvelteChunks ==
    /\ fxPc = "call" /\ fxKind = "svelte"
    /\ fxChunks' = _extract_svelte_chunks(fxPath, fxContent)
    /\ fxPc' = "done"
    /\ UNCHANGED <<fxKind, fxPath, fxContent, fxStart, fxMatchEnd, fxWarnings>>

ExtractHtmlChunks ==
    /\ fxPc = "call" /\ fxKind = "html"
    /\ fxChunks' = _extract_html_chunks(fxPath, fxContent)
    /\ fxPc' = "done"
    /\ UNCHANGED <<fxKind, fxPath, fxContent, fxStart, fxMatchEnd, fxWarnings>>

MarkupNext ==
    /\ \/ ExtractSvelteChunks
       \/ ExtractHtmlChunks
    /\ UNCHANGED <<runVars, flVars, mdVars, trVars, exVars>>

InitMarkup ==
    RunOff /\ FilterOff /\ MarkdownOff /\ BuilderOff /\ ExtractionOff /\ MarkupInit

SpecMarkup == InitMarkup /\ [][MarkupNext]_vars

ChunkCodes(cs) == [i \in 1..Len(cs) |-> cs[i].code]

ChunkTypes(cs) == [i \in 1..Len(cs) |-> cs[i].type]

\* number of occurrences of sub in s
Occurrences(s, sub) ==
    Cardinality({ i \in 1..(Len(s) - Len(sub) + 1) : SubSeq(s, i, i + Len(sub) - 1) = sub })

WholeFileCode(content) ==
    IF Len(content) <= 500 THEN content ELSE SubSeq(content, 1, 500) \o "..."

-----------------------------------------------------------------------------
(* The documentation of a declaration: _extract_dart_chunks (classes and    *)
(* functions) and _extract_rust_chunks                                      *)

\* \w
WordChars ==
    LET w == "abcdefghijklmnopqrstuvwxyzABCDEFGHIJKLMNOPQRSTUVWXYZ0123456789_"
    IN  { CharAt(w, i) : i \in 1..Len(w) }

\* s[n:]
Drop(s, n) == IF Len(s) <= n THEN "" ELSE SubSeq(s, n + 1, Len(s))

\* (?:\/\/\/.*\n): a line (given without its newline) that the pattern takes
\* as a doc line
DocUnit(line) == StartsWith(line, "///")

\* (?:@\w+\n): a line that the pattern takes as an annotation
AnnotationUnit(line) ==
    /\ Len(line) >= 2
    /\ CharAt(line, 1) = "@"
    /\ \A i \in 2..Len(line) : CharAt(line, i) \in WordChars

\* s is matched by (?:\/\/\/.*\n)*(?:@\w+\n)*
PrefixParses(s) ==
    \/ s = ""
    \/ /\ EndsWith(s, "\n")
       /\ LET ls == SplitLines(SubSeq(s, 1, Len(s) - 1))
          IN  \E k \in 0..Len(ls) :
                 /\ \A i \in 1..k : DocUnit(ls[i])
                 /\ \A i \in (k + 1)..Len(ls) : AnnotationUnit(ls[i])

\* match.start() of the class or function pattern for the declaration whose
\* keyword (or return type) is at offset decl: the leftmost offset from which
\* doc lines and annotations lead up to the declaration
DartMatchStart(content, decl) ==
    LET starts == { q \in 0..decl : PrefixParses(Slice(content, q, decl)) }
    IN  CHOOSE q \in starts : \A k \in starts : q <= k

\* doc_start: the start of the line that holds start
LineStart(content, start) ==
    LET nl == { i \in 1..start : CharAt(content, i) = "\n" }
    IN  IF nl = {} THEN 0 ELSE CHOOSE i \in nl : \A k \in nl : k <= i

\* the doc_lines loop over content[doc_start:start].split('\n') and the join
RECURSIVE DartDocLines(_)
DartDocLines(lines) ==
    IF lines = <<>> THEN <<>>
    ELSE LET stripped == Strip(Head(lines))
         IN  (IF StartsWith(stripped, "///")
              THEN <<Strip(Drop(stripped, 3))>> ELSE <<>>)
                 \o DartDocLines(Tail(lines))

\* documentation of a Dart class or function whose match starts at start
DartDocumentation(content, start, cfg) ==
    LET doc_start == LineStart(content, start)
        doc_lines == DartDocLines(SplitLines(Slice(content, doc_start, start)))
        documentation == Join("\n", doc_lines)
    IN  IF documentation = "" THEN "" ELSE Prefix(documentation, cfg.max_doc_length)

\* lines[-10:]
DocWindow == 10

\* for line in reversed(lines[-10:]): the doc lines found from line k down
\* to line low, in original order
RECURSIVE RustDocLines(_, _, _)
RustDocLines(lines, k, low) ==
    IF k < low THEN <<>>
    ELSE LET stripped == Strip(lines[k])
         IN  IF StartsWith(stripped, "///") \/ StartsWith(stripped, "//!")
             THEN Append(RustDocLines(lines, k - 1, low),
                         Strip(Drop(stripped, 3)))
             ELSE IF StartsWith(stripped, "/*") \/ StartsWith(stripped, "*/")
             THEN RustDocLines(lines, k - 1, low)
             ELSE IF stripped = ""
             THEN RustDocLines(lines, k - 1, low)
             ELSE <<>>

\* documentation of a Rust item whose match starts at start_pos
RustDocumentation(content, start_pos) ==
    LET lines == SplitLines(Slice(content, 0, start_pos))
    IN  Join("\n", RustDocLines(lines, Len(lines), Max(1, Len(lines) - DocWindow + 1)))

\* the chunk of a declaration: the fields the documentation law is about
DocChunk(type, name, documentation, start) ==
    [type |-> type, name |-> name, documentation |-> documentation, start |-> start]

\* the class loop on a file whose one class is declared at offset decl
DartClassDocChunks(content, decl) ==
    LET start == DartMatchStart(content, decl)
    IN  <<DocChunk("class", "A", DartDocumentation(content, start, DefaultConfig), start)>>

\* the function loop on a file whose one function is declared at offset decl
DartFunctionDocChunks(content, decl) ==
    LET start == DartMatchStart(content, decl)
    IN  <<DocChunk("function", "f", DartDocumentation(content, start, DefaultConfig), start)>>

\* the 'pub fn' and the 'fn' pattern on a file whose one function is declared
\* 'pub fn' at offset decl: the second pattern matches 4 characters later
RustFnDocChunks(content, decl) ==
    << DocChunk("function", "f", RustDocumentation(content, decl), decl),
       DocChunk("function", "f", RustDocumentation(content, decl + 4), decl + 4) >>

\* Lines that precede the declaration in the files tried
DocLinePool == {"/// d", "  /// e", "//! m", "", "x", "@a", "/* c"}

DocIndents == {"", "  "}

DartClassDecl == "class A {}"

DartFunctionDecl == "void f() {}"

RustFnDecl == "pub fn f() {}"

\* the declaration of each kind of file
DeclOf(kind) ==
    IF kind = "dart_class_doc" THEN DartClassDecl
    ELSE IF kind = "dart_function_doc" THEN DartFunctionDecl
    ELSE RustFnDecl

DocKinds == {"dart_class_doc", "dart_function_doc", "rust_doc"}

\* a doc comment of eleven lines before a Rust function
LongDocExample ==
    "/// 1\n/// 2\n/// 3\n/// 4\n/// 5\n/// 6\n/// 7\n/// 8\n/// 9\n/// a\n/// b\n"
        \o RustFnDecl

DocTexts(kind) ==
    { Concat([i \in 1..Len(ls) |-> ls[i] \o "\n"]) \o ind \o DeclOf(kind) :
        ls \in UNION { [1..n -> DocLinePool] : n \in 0..MaxDocLines },
        ind \in DocIndents }
      \cup (IF kind = "rust_doc" THEN {LongDocExample} ELSE {})

\* offset of the declaration in a file of the kind
DeclOffset(content, kind) == Len(content) - Len(DeclOf(kind))

DocInit ==
    /\ fxKind \in DocKinds
    /\ fxPath = "r/a"
    /\ fxContent \in DocTexts(fxKind)
    /\ fxStart = DeclOffset(fxContent, fxKind)
    /\ fxMatchEnd = Len(fxContent) - 1
    /\ fxChunks = <<>>
    /\ fxWarnings = <<>>
    /\ fxPc = "call"

ExtractDartClassDoc ==
    /\ fxPc = "call" /\ fxKind = "dart_class_doc"
    /\ ScanDone(DartClassDocChunks(fxContent, fxStart))

ExtractDartFunctionDoc ==
    /\ fxPc = "call" /\ fxKind = "dart_function_doc"
    /\ ScanDone(DartFunctionDocChunks(fxContent, fxStart))

ExtractRustDoc ==
    /\ fxPc = "call" /\ fxKind = "rust_doc"
    /\ ScanDone(RustFnDocChunks(fxContent, fxStart))

DocNext ==
    /\ \/ ExtractDartClassDoc
       \/ ExtractDartFunctionDoc
       \/ ExtractRustDoc
    /\ UNCHANGED <<runVars, flVars, mdVars, trVars, exVars>>

InitDoc ==
    RunOff /\ FilterOff /\ MarkdownOff /\ BuilderOff /\ ExtractionOff /\ DocInit

SpecDoc == InitDoc /\ [][DocNext]_vars

\* The documentation as described: walking backward from offset from over the
\* lines that are blank or start (after trimming) with one of the markers,
\* up to the first other line; the marked lines in original order, markers
\* stripped, joined by newlines
DescribedDoc(content, from, markers) ==
    LET lines == SplitLines(Slice(content, 0, from))
        marked(l) == \E m \in markers : StartsWith(Strip(l), m)
        passed(l) == marked(l) \/ Strip(l) = ""
        first == CHOOSE k \in 1..(Len(lines) + 1) :
                    /\ \A j \in k..Len(lines) : passed(lines[j])
                    /\ k > 1 => ~passed(lines[k - 1])
        taken == SelectSeq(SubSeq(lines, first, Len(lines)), marked)
    IN  Join("\n", [i \in 1..Len(taken) |->
                        Strip(Drop(Strip(taken[i]), 3))])

\* C23 as claimed: the documentation of a Dart class, a Dart function and a
\* Rust item is the doc-comment lines ('///', for Rust also '//!') found by
\* walking backward from the declaration over blank and doc-comment lines up
\* to the first other line, in original order, markers stripped, joined by
\* newlines
C23_DocumentationWalksBackward ==
    (fxPc = "done" /\ fxKind \in DocKinds) =>
        \A i \in 1..Len(fxChunks) :
            fxChunks[i].documentation =
                IF fxKind = "rust_doc"
                THEN DescribedDoc(fxContent, fxChunks[i].start, {"///", "//!"})
                ELSE DescribedDoc(fxContent, fxStart, {"///"})

-----------------------------------------------------------------------------
(* The pattern loops of _extract_rust_chunks and _extract_js_chunks         *)

\* content[i], '' past the end
Ch(content, i) == IF i >= 0 /\ i < Len(content) THEN SubSeq(content, i + 1, i + 1) ELSE ""

\* \s*: the first offset from i on that holds no whitespace
SpaceEnd(content, i) ==
    LET stops == { k \in i..Len(content) : Ch(content, k) \notin Whitespace }
    IN  CHOOSE k \in stops : \A m \in stops : k <= m

\* \w*: the first offset from i on that holds no word character
WordEnd(content, i) ==
    LET stops == { k \in i..Len(content) : Ch(content, k) \notin WordChars }
    IN  CHOOSE k \in stops : \A m \in stops : k <= m

\* the literal lit stands at offset i
LitAt(content, i, lit) ==
    i >= 0 /\ i + Len(lit) <= Len(content) /\ SubSeq(content, i + 1, i + Len(lit)) = lit

\* the keywords of a pattern, each followed by \s+: the offset after them, -1
\* when they do not stand at pos
RECURSIVE AfterWords(_, _, _)
AfterWords(content, pos, words) ==
    IF words = <<>> THEN pos
    ELSE LET e == pos + Len(Head(words))
         IN  IF LitAt(content, pos, Head(words)) /\ SpaceEnd(content, e) > e
             THEN AfterWords(content, SpaceEnd(content, e), Tail(words))
             ELSE -1

\* (?:<[^>]*>\s+)? of the impl pattern: the offset of the name, -1 when the
\* pattern cannot go on
AfterGenerics(content, pos) ==
    IF Ch(content, pos) # "<" THEN pos
    ELSE LET g == Find(content, ">", pos + 1)
         IN  IF g # -1 /\ SpaceEnd(content, g + 1) > g + 1
             THEN SpaceEnd(content, g + 1) ELSE -1

\* \s*(?:->\s*[^{]+)?\s* (Rust) or \s* (JS) between the ')' and the '{'
TailOk(r, arrow) ==
    \/ IsBlank(r)
    \/ /\ arrow
       /\ LET t == Drop(r, LeadingRun(r, Whitespace))
          IN  StartsWith(t, "->") /\ Len(t) > 2

\* what follows the name: match.end(), -1 when the pattern does not match
TailEnd(content, ne, tail) ==
    LET s1 == SpaceEnd(content, ne)
    IN  IF tail = "none" THEN ne
        ELSE IF tail \in {"rust_fn", "js_fn"}
        THEN LET b == Find(content, "{", s1 + 1)
             IN  IF /\ Ch(content, s1) = "("
                    /\ b # -1
                    /\ \E q \in (s1 + 1)..(b - 1) :
                          /\ Ch(content, q) = ")"
                          /\ TailOk(Slice(content, q + 1, b), tail = "rust_fn")
                 THEN b + 1 ELSE -1
        ELSE IF tail = "assign"
        THEN IF Ch(content, s1) = "=" THEN s1 + 1 ELSE -1
        ELSE LET s2 == SpaceEnd(content, s1 + 1)
                 c == Find(content, ")", s2 + 1)
                 s3 == SpaceEnd(content, c + 1)
                 s4 == SpaceEnd(content, s3 + 2)
             IN  IF /\ Ch(content, s1) = "="
                    /\ Ch(content, s2) = "("
                    /\ c # -1
                    /\ LitAt(content, s3, "=>")
                    /\ Ch(content, s4) = "{"
                 THEN s4 + 1 ELSE -1

\* the pattern matched at offset pos: name is group(1), end is match.end()
MatchAt(content, pos, pat) ==
    LET w == AfterWords(content, pos, pat.words)
        ns == IF w = -1 THEN -1
              ELSE IF pat.generics THEN AfterGenerics(content, w) ELSE w
        ne == IF ns = -1 THEN -1 ELSE WordEnd(content, ns)
        end == IF ns = -1 \/ ne = ns THEN -1 ELSE TailEnd(content, ne, pat.tail)
    IN  IF end = -1 THEN [ok |-> FALSE, start |-> pos, name |-> "", end |-> pos]
        ELSE [ok |-> TRUE, start |-> pos, name |-> Slice(content, ns, ne), end |-> end]

\* re.finditer(pattern, content, re.MULTILINE) from offset from: the matches,
\* leftmost first, none overlapping another one of the same pattern
RECURSIVE MatchesFrom(_, _, _)
MatchesFrom(content, pat, from) ==
    LET at == { q \in from..Len(content) : MatchAt(content, q, pat).ok }
    IN  IF at = {} THEN <<>>
        ELSE LET m == MatchAt(content, CHOOSE q \in at : \A k \in at : q <= k, pat)
             IN  <<m>> \o MatchesFrom(content, pat, m.end)

Pattern(words, generics, tail, type) ==
    [words |-> words, generics |-> generics, tail |-> tail, type |-> type]

\* patterns of _extract_rust_chunks
RustPatterns ==
    << Pattern(<<"pub", "fn">>, FALSE, "rust_fn", "function"),
       Pattern(<<"fn">>, FALSE, "rust_fn", "function"),
       Pattern(<<"pub", "struct">>, FALSE, "none", "struct"),
       Pattern(<<"struct">>, FALSE, "none", "struct"),
       Pattern(<<"impl">>, TRUE, "none", "implementation"),
       Pattern(<<"pub", "enum">>, FALSE, "none", "enum"),
       Pattern(<<"enum">>, FALSE, "none", "enum") >>

\* patterns of _extract_js_chunks
JsPatterns ==
    << Pattern(<<"export", "function">>, FALSE, "js_fn", "function"),
       Pattern(<<"function">>, FALSE, "js_fn", "function"),
       Pattern(<<"const">>, FALSE, "arrow", "arrow_function"),
       Pattern(<<"export", "class">>, FALSE, "none", "class"),
       Pattern(<<"class">>, FALSE, "none", "class"),
       Pattern(<<"export", "const">>, FALSE, "assign", "constant") >>

\* the chunk of a match whose region was located
ItemChunk(path, content, type, m, end_pos) ==
    [type |-> type,
     name |-> m.name,
     file_path |-> ChunkPath(path),
     signature |-> Slice(content, m.start, m.end),
     code |-> Slice(content, m.start, end_pos),
     start |-> m.start,
     end |-> end_pos]

\* chunks.append(chunk) under 'if found_opening:': the list after a match
KeptChunks_Deduplicated(file_chunks, found_opening, chunk) ==
    IF found_opening
       /\ \A i \in 1..Len(file_chunks) :
             <<file_chunks[i].name, file_chunks[i].type>> # <<chunk.name, chunk.type>>
    THEN Append(file_chunks, chunk) ELSE file_chunks

KeptChunks(file_chunks, found_opening, chunk) ==
    IF found_opening THEN Append(file_chunks, chunk) ELSE file_chunks

\* for match in re.finditer(...): the list after the matches ms[i..] of a pattern
RECURSIVE MatchLoop(_, _, _, _, _, _)
MatchLoop(path, content, type, ms, i, file_chunks) ==
    IF i > Len(ms) THEN file_chunks
    ELSE LET r == BraceScan(content, ms[i].start, FALSE)
         IN  MatchLoop(path, content, type, ms, i + 1,
                       KeptChunks(file_chunks, r.found_opening,
                                  ItemChunk(path, content, type, ms[i], r.end_pos)))

\* for pattern, chunk_type in patterns: the list after the patterns k..
RECURSIVE PatternLoop(_, _, _, _, _)
PatternLoop(path, content, patterns, k, file_chunks) ==
    IF k > Len(patterns) THEN file_chunks
    ELSE PatternLoop(path, content, patterns, k + 1,
                     MatchLoop(path, content, patterns[k].type,
                               MatchesFrom(content, patterns[k], 0), 1, file_chunks))

_extract_rust_chunks(path, content) == PatternLoop(path, content, RustPatterns, 1, <<>>)

_extract_js_chunks(path, content) == PatternLoop(path, content, JsPatterns, 1, <<>>)

\* Pieces of the files tried
RustParts ==
    { "pub fn f() { }", "fn g() -> i { }", "pub struct S { }", "impl S { fn m() { } }",
      "impl<T> S { }", "enum E { }", "fn h(", "struct U;", "\n" }

JsParts ==
    { "export function f() { }", "function g() { }", "const h = () => { }",
      "export class A { }", "class B { function m() { } }", "export const c = 1;",
      "function k(", "\n" }

ItemTexts(parts) ==
    { Concat(ps) : ps \in UNION { [1..n -> parts] : n \in 0..MaxItemParts } }

ItemKinds == {"rust_items", "js_items"}

ItemsInit ==
    /\ fxKind \in ItemKinds
    /\ fxPath = "r/src/a"
    /\ fxContent \in ItemTexts(IF fxKind = "rust_items" THEN RustParts ELSE JsParts)
    /\ fxStart = 0
    /\ fxMatchEnd = 0
    /\ fxChunks = <<>>
    /\ fxWarnings = <<>>
    /\ fxPc = "call"

ExtractRustChunks ==
    /\ fxPc = "call" /\ fxKind = "rust_items"
    /\ ScanDone(_extract_rust_chunks(fxPath, fxContent))

ExtractJsChunks ==
    /\ fxPc = "call" /\ fxKind = "js_items"
    /\ ScanDone(_extract_js_chunks(fxPath, fxContent))

ItemsNext ==
    /\ \/ ExtractRustChunks
       \/ ExtractJsChunks
    /\ UNCHANGED <<runVars, flVars, mdVars, trVars, exVars>>

InitItems ==
    RunOff /\ FilterOff /\ MarkdownOff /\ BuilderOff /\ ExtractionOff /\ ItemsInit

SpecItems == InitItems /\ [][ItemsNext]_vars

\* the patterns of the extractor that ran
PatternsOf(kind) == IF kind = "rust_items" THEN RustPatterns ELSE JsPatterns

\* the matches of the patterns whose region is located (an opening brace
\* stands at or after the start of the match): pattern number and match number
LocatedMatches(content, patterns) ==
    { km \in (1..Len(patterns)) \X (1..Len(content)) :
        LET ms == MatchesFrom(content, patterns[km[1]], 0)
        IN  km[2] <= Len(ms) /\ Find(content, "{", ms[km[2]].start) # -1 }

\* C25: overlapping matches are all kept. Every match of every pattern whose
\* region is located has its own chunk, with the pattern's type and the
\* match's name and text as signature; the chunks are as many as those
\* matches, so none is dropped as a duplicate: 'pub fn f() { }' yields two
\* 'function' chunks named f (the 'pub fn' and the 'fn' match), and a function
\* inside an impl block yields the function chunk and the enclosing impl chunk.
C25_OverlappingMatchesKept ==
    (fxPc = "done" /\ fxKind \in ItemKinds) =>
        LET patterns == PatternsOf(fxKind)
            located == LocatedMatches(fxContent, patterns)
        IN  /\ Len(fxChunks) = Cardinality(located)
            /\ \A km \in located :
                  LET m == MatchesFrom(fxContent, patterns[km[1]], 0)[km[2]]
                  IN  \E i \in 1..Len(fxChunks) :
                         /\ fxChunks[i].start = m.start
                         /\ fxChunks[i].type = patterns[km[1]].type
                         /\ fxChunks[i].name = m.name
                         /\ fxChunks[i].signature = Slice(fxContent, m.start, m.end)
            /\ fxContent = "pub fn f() { }" =>
                  [i \in 1..Len(fxChunks) |->
                      <<fxChunks[i].type, fxChunks[i].name, fxChunks[i].code>>]
                    = << <<"function", "f", "pub fn f() { }">>,
                         <<"function", "f", "fn f() { }">> >>
            /\ fxContent = "impl S { fn m() { } }" =>
                  [i \in 1..Len(fxChunks) |->
                      <<fxChunks[i].type, fxChunks[i].name, fxChunks[i].code>>]
                    = << <<"function", "m", "fn m() { }">>,
                         <<"implementation", "S", "impl S { fn m() { } }">> >>

\* C25 witness: two chunks of one name and type were extracted, the region of
\* one inside the region of the other
C25_Witness ==
    /\ fxPc = "done"
    /\ fxKind \in ItemKinds
    /\ \E i, j \in 1..Len(fxChunks) :
          /\ i < j
          /\ fxChunks[i].name = fxChunks[j].name
          /\ fxChunks[i].type = fxChunks[j].type
          /\ fxChunks[i].start < fxChunks[j].start
          /\ fxChunks[j].end <= fxChunks[i].end

-----------------------------------------------------------------------------
(* The run: accounting, atomicity and identifiers of the upload *)

\* total number of chunks of the batches 1..b whose result is in results
RECURSIVE SumBatchesIn(_, _)
SumBatchesIn(b, results) ==
    IF b = 0 THEN 0
    ELSE SumBatchesIn(b - 1, results)
            + (IF batchResult[b] \in results THEN BatchSize(b) ELSE 0)

FailedResults == {"embed_failed", "build_failed", "upload_failed"}

\* C26: upload accounting. chunks_uploaded never exceeds chunks_created; when
\* the upload is over every batch has a result, chunks_uploaded is the total
\* size of the batches whose upsert succeeded, chunks_uploaded plus the total
\* size of the failed batches is chunks_created, and the errors are as many
\* as the failed batches, one naming each.
C26_UploadAccounting ==
    /\ stats.chunks_uploaded <= stats.chunks_created
    /\ UploadOver =>
          LET n == TotalBatches(chunks, config.batch_size)
              failed == { b \in 1..n : batchResult[b] \in FailedResults }
          IN  /\ Len(batchResult) = n
              /\ stats.chunks_created = Len(chunks)
              /\ stats.chunks_uploaded = SumBatchesIn(n, {"ok"})
              /\ stats.chunks_uploaded + SumBatchesIn(n, FailedResults)
                    = stats.chunks_created
              /\ Len(stats.errors) = Cardinality(failed)
              /\ \A b \in failed : Count(stats.errors, BatchError(b)) = 1
              /\ \A id \in DOMAIN store :
                    \E i \in 1..Len(chunks) : PointId(chunks[i]) = id

\* C26 witness: of three chunks in batches of two, the first batch was
\* uploaded and the second failed: 2 uploaded, 3 created, 1 error
C26_Witness ==
    /\ pc = "returned"
    /\ config.batch_size = 2
    /\ Len(batchResult) = 2
    /\ batchResult[1] = "ok"
    /\ batchResult[2] \in FailedResults
    /\ stats.chunks_created = 3
    /\ stats.chunks_uploaded = 2
    /\ Len(stats.errors) = 1

\* the records of all the chunks of the batch at the current offset
BatchRecords ==
    LET batch == BatchAt(chunks, batch_idx, config.batch_size)
    IN  [j \in 1..Len(batch) |->
            [id |-> PointId(batch[j]),
             vector |-> get_embedding_text(batch[j]),
             payload |-> Payload(batch[j])]]

UploadedPositions ==
    { i \in 1..Len(chunks) :
        LET b == BatchNum(i - 1, config.batch_size)
        IN  b <= Len(batchResult) /\ batchResult[b] = "ok" }

\* C28: identifier collisions. Chunks of a run that share (file_path, name,
\* type) get the same record id, as the two chunks the 'pub fn' and 'fn'
\* patterns produce for one Rust 'pub fn' do; the store of a run that began
\* with an empty collection holds one record per distinct triple among the
\* uploaded chunks, each carrying the payload of the last uploaded chunk of
\* its triple, and so at most as many records as chunks were uploaded.
C28_IdentifierCollisions ==
    LET triples == { <<chunks[i].file_path, chunks[i].name, chunks[i].type>> :
                        i \in UploadedPositions }
    IN  /\ pc = "idle" =>
              LET cs == _extract_rust_chunks("a.rs", "pub fn f() { }")
              IN  /\ Len(cs) = 2
                  /\ cs[1].signature # cs[2].signature
                  /\ <<cs[1].file_path, cs[1].name, cs[1].type>>
                        = <<cs[2].file_path, cs[2].name, cs[2].type>>
                  /\ PointId(cs[1]) = PointId(cs[2])
        /\ \A i, j \in 1..Len(chunks) :
              (/\ chunks[i].file_path = chunks[j].file_path
               /\ chunks[i].name = chunks[j].name
               /\ chunks[i].type = chunks[j].type)
                  <=> PointId(chunks[i]) = PointId(chunks[j])
        /\ DOMAIN store = { PointId(chunks[i]) : i \in UploadedPositions }
        /\ Cardinality(DOMAIN store) = Cardinality(triples)
        /\ Cardinality(DOMAIN store) <= total_uploaded
        /\ total_uploaded = Cardinality(UploadedPositions)
        /\ \A id \in DOMAIN store :
              LET same == { i \in UploadedPositions : PointId(chunks[i]) = id }
                  last == CHOOSE i \in same : \A k \in same : k <= i
              IN  store[id].payload = Payload(chunks[last])

\* C28 witness: the 'pub fn' chunk and the 'fn' chunk of one function were
\* both uploaded; the store holds one record, that of the later chunk
C28_Witness ==
    /\ pc = "returned"
    /\ Len(chunks) = 2
    /\ chunks[1].signature = "pub fn f() {"
    /\ chunks[2].signature = "fn f() {"
    /\ PointId(chunks[1]) = PointId(chunks[2])
    /\ stats.chunks_uploaded = 2
    /\ Cardinality(DOMAIN store) = 1
    /\ \A id \in DOMAIN store : store[id].payload.signature = "fn f() {"

\* range(0, len(chunks), batch_size): the offsets the loop visits
BatchOffsets(cs, size) == { o \in 0..(Len(cs) - 1) : o % size = 0 }

\* C29: batch partition. The batches of the chunk list are contiguous slices
\* in input order, every chunk is in exactly one batch, every batch but the
\* last has batch_size chunks, none is empty, and there are ceil(n / b) of
\* them, which is total_batches; the loop numbers them 1..total_batches.
C29_BatchPartition ==
    LET n == Len(chunks)
        b == config.batch_size
        offsets == BatchOffsets(chunks, b)
        batch(o) == BatchAt(chunks, o, b)
        ceil == CHOOSE m \in 0..n : m * b >= n /\ \A k \in 0..(m - 1) : k * b < n
    IN  /\ \A o \in offsets :
              /\ batch(o) = [j \in 1..Len(batch(o)) |-> chunks[o + j]]
              /\ Len(batch(o)) >= 1
              /\ Len(batch(o)) <= b
              /\ (\E later \in offsets : later > o) => Len(batch(o)) = b
              /\ BatchNum(o, b) = Cardinality({ e \in offsets : e <= o })
        /\ \A i \in 1..n :
              Cardinality({ o \in offsets : i - o \in 1..Len(batch(o)) }) = 1
        /\ Cardinality(offsets) = ceil
        /\ TotalBatches(chunks, b) = ceil
        /\ pc \in {"embed", "upsert"} => batch_idx \in offsets
        /\ (UploadOver /\ n > 0) =>
              embedCalls = [k \in 1..TotalBatches(chunks, b) |-> k]

\* C29 witness: three chunks in batches of two were cut into a batch of two
\* and a batch of one, and both were embedded
C29_Witness ==
    /\ pc = "returned"
    /\ Len(chunks) = 3
    /\ config.batch_size = 2
    /\ TotalBatches(chunks, config.batch_size) = 2
    /\ Len(BatchAt(chunks, 0, 2)) = 2
    /\ Len(BatchAt(chunks, 2, 2)) = 1
    /\ embedCalls = <<1, 2>>

-----------------------------------------------------------------------------
(* setup_collection over the runs against one store *)

\* the store call that setup_collection makes and that raises under a fault
FaultReached(exists, fault) ==
    \/ fault = "get_collections"
    \/ exists /\ fault = "get_collection"
    \/ ~exists /\ fault = "create_collection"

====
